---- MODULE Spec2Model ----
(***************************************************************************)
(* Backtesting service: the strategy rule engine (validator, rule-tree     *)
(* evaluator, indicator value resolver) of src/strategies.py, driven by    *)
(* the request handlers of src/app.py and run_backtest of src/backtest.py. *)
(*                                                                         *)
(* build_strategy raises NameError on every call: the class body           *)
(* `strategy_config = strategy_config` binds the name in the class scope,  *)
(* so the right-hand side is looked up in the class namespace and the      *)
(* module globals, never in the enclosing function.  POST /backtest hence  *)
(* ends in the error response before any strategy object exists.  The      *)
(* engine itself, class DynamicStrategy, is modelled as backtesting.py     *)
(* drives it when handed a subclass that carries strategy_config and       *)
(* params as class attributes (action RunStrategy).                        *)
(*                                                                         *)
(* JSON values are tagged records.  A Python dict keeps insertion order,   *)
(* so a rule tree is the ordered list of its rule/group/operator entries   *)
(* (field items) plus its optional "_sequence" entry.  Strings that the    *)
(* code searches by substring (indicator names, column names) are tuples   *)
(* of characters; messages are tuples of the pieces an f-string joins.     *)
(***************************************************************************)
EXTENDS Integers, Sequences, FiniteSets, TLC

VARIABLES
    pc,         \* position of the caller: idle, init, next, done
    strategy,   \* the strategy of the request being served
    candles,    \* the candle list of the request being served
    data_df,    \* the data frame of the run (self.data.df): a list of columns
    built,      \* a strategy class carrying the strategy exists
    bar,        \* 0-based index of the last candle handed to next()
    processed,  \* number of candles next() has processed in this run
    position,   \* "flat" or "long": the broker's position
    pending,    \* order waiting for the next bar: "none", "buy" or "close"
    traded,     \* a position has been closed in this run: equity has moved
    catalog_source, \* the library whose entries INDICATORS holds: talib, pandas_ta
    lastEval,   \* the last rule-tree evaluation made by next()
    reEval,     \* the same evaluation made a second time
    strategy_params, \* the backtest parameters the strategy class carries
    stop_loss,  \* self.stop_loss: unset, or a level in hundredths of a price unit
    take_profit, \* self.take_profit: unset, or a level in hundredths
    trade,      \* the broker's open trade with the stop and target it holds
    sized,      \* the last call of _calculate_position_size: inputs and size
    response,   \* the last HTTP response produced
    outcome,    \* what the last call of run_backtest returned or raised
    populated,  \* the names the global INDICATORS holds so far, in the order stored
    runs,       \* concurrent runs: per thread its position and what it resolved
    db,         \* the rows stored under the backtest run: result row and trades
    persist     \* the caller that saves a result: its input and its position

vars == <<pc, strategy, candles, data_df, built, bar, processed, position, pending,
          traded, catalog_source, lastEval, reEval, strategy_params, stop_loss, take_profit,
          trade, sized, response, outcome, populated, runs, db, persist>>

\* the state of one run of the strategy engine and of the request handlers
engineVars == <<pc, strategy, candles, data_df, built, bar, processed, position, pending,
                traded, catalog_source, lastEval, reEval, strategy_params, stop_loss,
                take_profit, trade, sized, response>>

\* the state the engine and the request handlers leave alone
auxVars == <<outcome, populated, runs, db, persist>>

\* the global catalog and the threads using it
raceVars == <<populated, runs>>

\* the database and the caller saving into it
persistVars == <<db, persist>>

-----------------------------------------------------------------------------
(* Bounds of the explored inputs *)

MaxTerms == 3      \* rule terms in a flat true/false tree
MaxOps == 2        \* operator entries in a tree
NumCandles == 4    \* candles in a request

-----------------------------------------------------------------------------
(* Strings *)

sPrice == <<"P", "r", "i", "c", "e">>
sNone  == <<"N", "o", "n", "e">>
sEmpty == <<>>
sNOPE  == <<"N", "O", "P", "E">>
sClose == <<"C", "l", "o", "s", "e">>
sOpenLower == <<"o", "p", "e", "n">>
sLow   == <<"L", "o", "w">>
sSMA   == <<"S", "M", "A">>
sRSI   == <<"R", "S", "I">>
sMovingAverage == <<"M", "o", "v", "i", "n", "g", " ", "A", "v", "e", "r", "a", "g", "e">>

\* Python's `a in b` for two strings: a is a contiguous part of b.
IsSubstring(a, b) ==
    \E k \in 0..(Len(b) - Len(a)) : SubSeq(b, k + 1, k + Len(a)) = a

\* the columns of the data frame handed to Backtest, in order
DfColumns ==
    << <<"O", "p", "e", "n">>, <<"H", "i", "g", "h">>, <<"L", "o", "w">>,
       sClose, <<"V", "o", "l", "u", "m", "e">>,
       <<"s", "y", "m", "b", "o", "l", "_", "i", "d">> >>

-----------------------------------------------------------------------------
(* JSON values *)

Absent == [tag |-> "absent"]          \* the key is not in the mapping
Null   == [tag |-> "null"]            \* JSON null (None)
EmptyList == [tag |-> "list"]         \* JSON []
Str(s) == [tag |-> "str", s |-> s]
Num(n) == [tag |-> "num", n |-> n]

IsDict(v) == v.tag = "dict"

\* {"name": ..., "indicatorSettings": ...}
IndicatorWith(name, settings) ==
    [tag |-> "dict", name |-> name, indicatorSettings |-> settings]
\* {"name": ...}
Indicator(name) == IndicatorWith(name, Absent)
\* {"length": n}
Settings(length) == [tag |-> "dict", length |-> Num(length)]
\* {"symbol": ..., "value": ...}
Condition(symbol, value) == [tag |-> "dict", symbol |-> symbol, value |-> value]
\* {"indicator": ..., "condition": ...}
Rule(indicator, condition) ==
    [tag |-> "dict", indicator |-> indicator, condition |-> condition]
\* {"type": ..., "index": ...}
SeqItem(type, index) == [tag |-> "dict", type |-> type, index |-> index]
\* one rule<i> / group<i> / operator<i> entry of a rule tree
Entry(kind, idx, val) == [kind |-> kind, idx |-> idx, val |-> val]
\* a rule tree: seq is Absent, or the value under "_sequence"
Tree(seq, items) == [tag |-> "dict", seq |-> seq, items |-> items]
List(elems) == [tag |-> "list", elems |-> elems]
\* {"buyRules": ..., "sellRules": ...}
Strategy(buy, sell) == [tag |-> "dict", buyRules |-> buy, sellRules |-> sell]

\* `key in rules` and rules[key] for the key f"{kind}{idx}"
HasKey(rules, kind, idx) ==
    \E k \in 1..Len(rules.items) :
        rules.items[k].kind = kind /\ rules.items[k].idx = idx
Lookup(rules, kind, idx) ==
    LET k == CHOOSE k \in 1..Len(rules.items) :
                 rules.items[k].kind = kind /\ rules.items[k].idx = idx
    IN  rules.items[k].val

\* the elements a `for item in sequence` loop visits, for a JSON list
Elems(v) == IF "elems" \in DOMAIN v THEN v.elems ELSE <<>>

\* Python truthiness of a JSON value (of d.get(key) when the key is absent)
Truthy(v) ==
    CASE v.tag = "absent" -> FALSE
      [] v.tag = "null"   -> FALSE
      [] v.tag = "list"   -> Elems(v) # <<>>
      [] v.tag = "num"    -> v.n # 0
      [] v.tag = "dict"   -> IF "items" \in DOMAIN v
                               THEN v.seq # Absent \/ v.items # <<>>
                               ELSE TRUE

IdxStr(n) == ToString(n)

-----------------------------------------------------------------------------
(* Rule-tree validator: validate_strategy, validate_rules, validate_rule *)

VOk(msg)   == [ok |-> TRUE,  exc |-> FALSE, msg |-> msg]
VFail(msg) == [ok |-> FALSE, exc |-> FALSE, msg |-> msg]
\* the call does not return: a TypeError or AttributeError leaves it
VRaise     == [ok |-> FALSE, exc |-> TRUE,  msg |-> <<"exception">>]

\* `key in v` raises TypeError when v is None or a number
InRaises(v) == v.tag \in {"null", "num"}
\* `key in v` for a string key: a mapping's key, never an element of the
\* (empty) list
KeyIn(v, key) == IsDict(v) /\ key \in DOMAIN v /\ v[key] # Absent

ComparisonSymbols == {"<", ">", "<=", ">=", "==", "!="}

validate_rule(rule) ==
    IF InRaises(rule) THEN VRaise
    ELSE IF ~KeyIn(rule, "indicator") THEN VFail(<<"Rule must have an indicator">>)
    ELSE IF ~KeyIn(rule, "condition") THEN VFail(<<"Rule must have a condition">>)
    ELSE IF InRaises(rule.indicator) THEN VRaise
    ELSE IF ~KeyIn(rule.indicator, "name") THEN VFail(<<"Indicator must have a name">>)
    ELSE IF InRaises(rule.condition) THEN VRaise
    ELSE IF ~KeyIn(rule.condition, "value") THEN VFail(<<"Condition must have a value">>)
    ELSE IF ~KeyIn(rule.condition, "symbol") THEN VFail(<<"Condition must have a symbol">>)
    ELSE IF ~(rule.condition.symbol.tag = "str"
              /\ rule.condition.symbol.s \in ComparisonSymbols)
         THEN VFail(<<"Condition symbol must be one of: <, >, <=, >=, ==, !=">>)
    ELSE VOk(<<"Rule is valid">>)

\* `value not in ["AND", "OR"]`
IsAndOr(v) == v.tag = "str" /\ v.s \in {"AND", "OR"}

RECURSIVE validate_rules(_)
RECURSIVE ValidateSequenceFrom(_, _)
RECURSIVE ValidateItemsFrom(_, _)

\* one pass of the loop `for item in sequence` (lines 311-344)
ValidateSequenceItem(rules, item) ==
    IF InRaises(item) THEN VRaise
    ELSE IF ~KeyIn(item, "type") \/ ~KeyIn(item, "index")
         THEN VFail(<<"Sequence items must have type and index">>)
    ELSE LET t == item.type
             n == item.index.n
         IN  IF t = Str("rule")
               THEN IF ~HasKey(rules, "rule", n)
                      THEN VFail(<<"Referenced rule ", "rule", IdxStr(n), " not found">>)
                      ELSE validate_rule(Lookup(rules, "rule", n))
             ELSE IF t = Str("group")
               THEN IF ~HasKey(rules, "group", n)
                      THEN VFail(<<"Referenced group ", "group", IdxStr(n), " not found">>)
                      ELSE validate_rules(Lookup(rules, "group", n))
             ELSE IF t = Str("operator")
               THEN IF ~HasKey(rules, "operator", n)
                      THEN VFail(<<"Referenced operator ", "operator", IdxStr(n), " not found">>)
                    ELSE IF ~IsAndOr(Lookup(rules, "operator", n))
                      THEN VFail(<<"Operator ", "operator", IdxStr(n), " must be AND or OR">>)
                    ELSE VOk(<<>>)
             ELSE VOk(<<>>)

ValidateSequenceFrom(rules, k) ==
    IF k > Len(Elems(rules.seq)) THEN VOk(<<"Rules structure is valid">>)
    ELSE LET r == ValidateSequenceItem(rules, Elems(rules.seq)[k])
         IN  IF ~r.ok THEN r ELSE ValidateSequenceFrom(rules, k + 1)

\* one pass of the loop `for key, value in rules.items()` (lines 348-359)
ValidateEntry(e) ==
    IF e.kind = "rule" THEN validate_rule(e.val)
    ELSE IF e.kind = "operator"
      THEN IF ~IsAndOr(e.val)
             THEN VFail(<<"Operator ", "operator", IdxStr(e.idx), " must be AND or OR">>)
             ELSE VOk(<<>>)
    ELSE validate_rules(e.val)

ValidateItemsFrom(rules, k) ==
    IF k > Len(rules.items) THEN VOk(<<"Rules structure is valid">>)
    ELSE LET r == ValidateEntry(rules.items[k])
         IN  IF ~r.ok THEN r ELSE ValidateItemsFrom(rules, k + 1)

validate_rules(rules) ==
    IF ~IsDict(rules) THEN VRaise     \* `in` on None, .items() on a list
    ELSE IF rules.seq # Absent
      THEN IF rules.seq.tag # "list" THEN VRaise   \* iterating None
           ELSE ValidateSequenceFrom(rules, 1)
    ELSE ValidateItemsFrom(rules, 1)

Prefixed(prefix, r) == IF r.exc THEN r ELSE VFail(<<prefix>> \o r.msg)

\* validate_strategy with the two trees validated in the other order
validate_strategy_sell_first(strategy_config) ==
    IF ~Truthy(strategy_config.buyRules) /\ ~Truthy(strategy_config.sellRules)
      THEN VFail(<<"Strategy must have at least buyRules or sellRules">>)
    ELSE
      LET s == IF strategy_config.sellRules # Absent
                 THEN validate_rules(strategy_config.sellRules) ELSE VOk(<<>>)
      IN  IF ~s.ok THEN Prefixed("Invalid sell rules: ", s)
          ELSE
            LET b == IF strategy_config.buyRules # Absent
                       THEN validate_rules(strategy_config.buyRules) ELSE VOk(<<>>)
            IN  IF ~b.ok THEN Prefixed("Invalid buy rules: ", b)
                ELSE VOk(<<"Strategy structure is valid">>)

validate_strategy(strategy_config) ==
    IF ~Truthy(strategy_config.buyRules) /\ ~Truthy(strategy_config.sellRules)
      THEN VFail(<<"Strategy must have at least buyRules or sellRules">>)
    ELSE
      LET b == IF strategy_config.buyRules # Absent
                 THEN validate_rules(strategy_config.buyRules) ELSE VOk(<<>>)
      IN  IF ~b.ok THEN Prefixed("Invalid buy rules: ", b)
          ELSE
            LET s == IF strategy_config.sellRules # Absent
                       THEN validate_rules(strategy_config.sellRules) ELSE VOk(<<>>)
            IN  IF ~s.ok THEN Prefixed("Invalid sell rules: ", s)
                ELSE VOk(<<"Strategy structure is valid">>)

-----------------------------------------------------------------------------
(* Data frame and indicator catalog *)

\* a column of the frame; assigned counts the executions of `df[name] = ...`
\* that wrote it after the frame was made
Column(name, series) == [name |-> name, series |-> series, assigned |-> 0]

\* candles_to_dataframe followed by the renaming of run_backtest: one column
\* per candle field, in the field order of CandleData, time being the index
DataFrame(cs) ==
    << Column(DfColumns[1], [k \in 1..Len(cs) |-> cs[k].open]),
       Column(DfColumns[2], [k \in 1..Len(cs) |-> cs[k].high]),
       Column(DfColumns[3], [k \in 1..Len(cs) |-> cs[k].low]),
       Column(DfColumns[4], [k \in 1..Len(cs) |-> cs[k].close]),
       Column(DfColumns[5], [k \in 1..Len(cs) |-> cs[k].volume]),
       Column(DfColumns[6], [k \in 1..Len(cs) |-> 0]) >>

\* The catalog after initialize_indicators: name -> source.  TA-Lib entries
\* are discovered first; a pandas-ta function of the same upper-cased name
\* with at least one defaulted parameter replaces the entry (lines 106-113).
\* Which of the two an installation ends with, and whether the pandas-ta
\* accessor call of line 193 works in it, is left open: catalog_source is
\* "pandas_ta" for an entry whose computation yields a series, "talib" for
\* one whose computation raises inside the try block.
INDICATORS == (sSMA :> catalog_source) @@ (sRSI :> catalog_source)
\* display name -> canonical name (three of the ten entries)
INDICATOR_MAPPING == (sRSI :> sRSI) @@ (sMovingAverage :> sSMA) @@ (sSMA :> sSMA)

NoIndicator == [name |-> <<>>, source |-> "none"]

get_indicator(name) ==
    IF name \in DOMAIN INDICATORS
      THEN [name |-> name, source |-> INDICATORS[name]]
    ELSE IF name \in DOMAIN INDICATOR_MAPPING
            /\ INDICATOR_MAPPING[name] \in DOMAIN INDICATORS
      THEN [name |-> INDICATOR_MAPPING[name],
            source |-> INDICATORS[INDICATOR_MAPPING[name]]]
    ELSE NoIndicator

\* self.data.Close
Close(df) == df[CHOOSE k \in 1..Len(df) : df[k].name = sClose].series

\* df[name]: the column of that exact name exists
HasColumn(df, name) == \E k \in 1..Len(df) : df[k].name = name
ColumnNamed(df, name) == df[CHOOSE k \in 1..Len(df) : df[k].name = name]

\* float('nan'): every value of the frame is >= 0 here
NaN == -1

\* the window length a pandas-ta moving average uses when none is given
DefaultLength == 10

\* func_params of a pandas-ta entry: the settings the caller gave (the
\* defaults of such an entry are None, stored as "", and are not passed)
LengthOf(params) ==
    IF IsDict(params) /\ "length" \in DOMAIN params THEN params.length.n
    ELSE DefaultLength

\* the simple moving average of the closes over `length` bars: NaN until
\* the window is full
MovingAverage(close, length) ==
    [k \in 1..Len(close) |->
        IF k < length THEN NaN
        ELSE LET Sum[j \in 0..length] ==
                     IF j = 0 THEN 0 ELSE Sum[j - 1] + close[k - j + 1]
             IN  Sum[length] \div length]

\* the name pandas-ta gives the series: f"SMA_{length}"
SeriesName(indicator, length) == indicator.name \o <<"_", IdxStr(length)>>

\* `df[name] = result`: a new column is appended, an existing one rewritten
Assign(df, name, series) ==
    IF HasColumn(df, name)
      THEN [k \in 1..Len(df) |->
              IF df[k].name = name
                THEN [df[k] EXCEPT !.series = series, !.assigned = @ + 1]
                ELSE df[k]]
      ELSE Append(df, [name |-> name, series |-> series, assigned |-> 1])

\* The try block of lines 175-200.  A TA-Lib function is called with
\* df['open'], ...; a missing column is a KeyError, which the except of
\* lines 201-202 logs, nothing being added: the frame handed in is
\* self.data.df, whose price columns run_backtest has renamed to
\* Open/High/Low/Close/Volume.  A pandas-ta function finds the closes
\* by itself and returns a series, or None when the frame is shorter than
\* the window.
ComputeInto(df, indicator, params) ==
    IF indicator.source = "talib"
      THEN IF HasColumn(df, sOpenLower)
             THEN Assign(df, indicator.name \o <<"_">>, ColumnNamed(df, sOpenLower).series)
             ELSE df
    ELSE IF LengthOf(params) > Len(Close(df)) THEN df
    ELSE Assign(df, SeriesName(indicator, LengthOf(params)),
                MovingAverage(Close(df), LengthOf(params)))

calculate_indicator(df, indicator_name, params) ==
    LET indicator == get_indicator(indicator_name)
    IN  IF indicator = NoIndicator THEN df
        ELSE ComputeInto(df, indicator, params)

-----------------------------------------------------------------------------
(* Rule-tree evaluator: DynamicStrategy._evaluate_* and _get_indicator_value *)

\* f"{indicator_name}": None prints as "None"
NamePattern(name) == IF name.tag = "str" THEN name.s ELSE sNone

\* the data frame's columns whose name contains the pattern, in column order
MatchingColumns(df, pattern) ==
    SelectSeq(df, LAMBDA col : IsSubstring(pattern, col.name))

\* i is the 0-based candle index.  Nothing raised inside is let out: the
\* except clause returns 0.0 as well.
_get_indicator_value(df, indicator_name, i) ==
    LET matching_columns == MatchingColumns(df, NamePattern(indicator_name))
    IN  IF matching_columns # <<>> THEN matching_columns[1].series[i + 1]
        ELSE IF indicator_name = Str(sPrice) THEN Close(df)[i + 1]
        ELSE 0

\* float(condition.get("value", 0)): the number, or no number at all
\* (ValueError for a non-numeric string, TypeError for None or a list)
FloatRaises(value) == value.tag \notin {"absent", "num"}
Float(value) == IF value.tag = "num" THEN value.n ELSE 0

\* d.get(key, default) on a value that is not a mapping: AttributeError
GetRaises(v) == ~IsDict(v)

\* the six comparisons of lines 175-186; any other symbol gives False
Compare(symbol, lhs, rhs) ==
    IF lhs = NaN THEN symbol = Str("!=")      \* NaN compares unequal to all
    ELSE IF symbol = Str("<")  THEN lhs < rhs
    ELSE IF symbol = Str(">")  THEN lhs > rhs
    ELSE IF symbol = Str("<=") THEN lhs <= rhs
    ELSE IF symbol = Str(">=") THEN lhs >= rhs
    ELSE IF symbol = Str("==") THEN lhs = rhs
    ELSE IF symbol = Str("!=") THEN lhs # rhs
    ELSE FALSE

\* an exception is raised inside the try block of _evaluate_rule
RuleRaises(rule) ==
    \/ GetRaises(rule)
    \/ rule.indicator # Absent /\ GetRaises(rule.indicator)
    \/ rule.condition # Absent /\ GetRaises(rule.condition)
    \/ rule.condition # Absent /\ FloatRaises(rule.condition.value)

\* what the except clause of _evaluate_rule returns
RuleExceptValue == FALSE

_evaluate_rule(df, rule, i) ==
    IF RuleRaises(rule) THEN RuleExceptValue
    ELSE
      LET indicator_name  == IF rule.indicator = Absent THEN Absent
                             ELSE rule.indicator.name
          indicator_value == _get_indicator_value(df, indicator_name, i)
          condition_value == IF rule.condition = Absent THEN 0
                             ELSE Float(rule.condition.value)
          condition_symbol == IF rule.condition = Absent
                                 \/ rule.condition.symbol = Absent
                                THEN Str("==") ELSE rule.condition.symbol
      IN  Compare(condition_symbol, indicator_value, condition_value)

\* the result of a tree evaluation: a boolean, or an exception that leaves it
EOk(b) == [exc |-> FALSE, val |-> b]
ERaise == [exc |-> TRUE,  val |-> FALSE]
\* results: the list of term values collected so far, or an exception
ROk(vals) == [exc |-> FALSE, vals |-> vals]
RRaise    == [exc |-> TRUE,  vals |-> <<>>]

\* the values of the operator entries, in insertion order (line 141)
OperatorValues(rules) ==
    LET ops == SelectSeq(rules.items, LAMBDA e : e.kind = "operator")
    IN  [k \in 1..Len(ops) |-> ops[k].val]

\* `any(k.startswith("operator") for k in rules)`
HasOperatorKey(rules) == \E k \in 1..Len(rules.items) : rules.items[k].kind = "operator"

EmptyResultTrue == TRUE
\* what both evaluators return when no term was collected (`if not results`)
EmptyResult == FALSE

\* a step that takes every operator other than AND for OR
ApplyOpElseOr(op, result, term) ==
    IF op = Str("AND") THEN result /\ term ELSE result \/ term

\* one step of the loops of lines 120-127 and 149-155
ApplyOp(op, result, term) ==
    IF op = Str("AND") THEN result /\ term
    ELSE IF op = Str("OR") THEN result \/ term
    ELSE result

RECURSIVE CombineComplexShifted(_, _, _, _)
\* the loop of _evaluate_complex_rules pairing term j with operator<j>
CombineComplexShifted(rules, results, j, result) ==
    IF j >= Len(results) THEN result
    ELSE CombineComplexShifted(rules, results, j + 1,
             IF HasKey(rules, "operator", j)
               THEN ApplyOp(Lookup(rules, "operator", j), result, results[j + 1])
               ELSE result)

RECURSIVE CombineComplexFrom(_, _, _, _)
\* the loop `for j in range(1, len(results))` of _evaluate_complex_rules,
\* from 0-based position j on, result being the accumulator
CombineComplexFrom(rules, results, j, result) ==
    IF j >= Len(results) THEN result
    ELSE CombineComplexFrom(rules, results, j + 1,
             IF HasKey(rules, "operator", j - 1)
               THEN ApplyOp(Lookup(rules, "operator", j - 1), result, results[j + 1])
               ELSE result)

RECURSIVE CombineSimpleFrom(_, _, _, _)
\* the loop `for j in range(1, len(results))` of _evaluate_simple_rules
CombineSimpleFrom(operators, results, j, result) ==
    IF j >= Len(results) THEN result
    ELSE CombineSimpleFrom(operators, results, j + 1,
             IF j - 1 < Len(operators)
               THEN ApplyOp(operators[j], result, results[j + 1])
               ELSE result)

\* the results list of _evaluate_simple_rules: the rule entries, in
\* insertion order (lines 137-139); group entries add nothing
SimpleResults(df, rules, i) ==
    LET rs == SelectSeq(rules.items, LAMBDA e : e.kind = "rule")
    IN  [k \in 1..Len(rs) |-> _evaluate_rule(df, rs[k].val, i)]

_evaluate_simple_rules(df, rules, i) ==
    IF ~IsDict(rules) THEN ERaise        \* .items() on a list
    ELSE LET results == SimpleResults(df, rules, i)
         IN  IF results = <<>> THEN EOk(EmptyResult)
             ELSE EOk(CombineSimpleFrom(OperatorValues(rules), results, 1, results[1]))

RECURSIVE _evaluate_rules(_, _, _)
RECURSIVE ComplexResultsFrom(_, _, _, _, _)

\* the loop `for item in sequence` of _evaluate_complex_rules from the k-th
\* item on, acc being the results appended so far
ComplexResultsFrom(df, rules, i, k, acc) ==
    IF k > Len(Elems(rules.seq)) THEN ROk(acc)
    ELSE
      LET item == Elems(rules.seq)[k]
      IN  IF GetRaises(item) THEN RRaise
          ELSE IF item.type = Str("rule") /\ item.index # Absent
                  /\ HasKey(rules, "rule", item.index.n)
            THEN ComplexResultsFrom(df, rules, i, k + 1,
                     Append(acc, _evaluate_rule(df, Lookup(rules, "rule", item.index.n), i)))
          ELSE IF item.type = Str("group") /\ item.index # Absent
                  /\ HasKey(rules, "group", item.index.n)
            THEN LET g == _evaluate_rules(df, Lookup(rules, "group", item.index.n), i)
                 IN  IF g.exc THEN RRaise
                     ELSE ComplexResultsFrom(df, rules, i, k + 1, Append(acc, g.val))
          ELSE ComplexResultsFrom(df, rules, i, k + 1, acc)

_evaluate_complex_rules(df, rules, i) ==
    IF rules.seq.tag # "list" THEN ERaise      \* iterating None
    ELSE LET r == ComplexResultsFrom(df, rules, i, 1, <<>>)
         IN  IF r.exc THEN ERaise
             ELSE IF r.vals = <<>> THEN EOk(EmptyResult)
             ELSE EOk(CombineComplexFrom(rules, r.vals, 1, r.vals[1]))

_evaluate_rules(df, rules, i) ==
    IF InRaises(rules) THEN ERaise             \* `"_sequence" in None`
    ELSE IF IsDict(rules) /\ rules.seq # Absent /\ HasOperatorKey(rules)
      THEN _evaluate_complex_rules(df, rules, i)
    ELSE _evaluate_simple_rules(df, rules, i)

-----------------------------------------------------------------------------
(* DynamicStrategy.init: the indicators of both trees are computed *)

\* the data frame after the call, or an exception that leaves init
POk(df) == [exc |-> FALSE, df |-> df]
PRaise  == [exc |-> TRUE,  df |-> <<>>]

_process_indicator(df, indicator_config) ==
    IF GetRaises(indicator_config) THEN PRaise
    ELSE IF indicator_config.name.tag # "str" \/ indicator_config.name.s = <<>>
      THEN POk(df)                       \* `if not indicator_name: return`
    ELSE POk(calculate_indicator(df, indicator_config.name.s,
                                 indicator_config.indicatorSettings))

RECURSIVE _process_rule_group(_, _)
RECURSIVE ProcessSequenceFrom(_, _, _)
RECURSIVE ProcessItemsFrom(_, _, _)

\* the loop of lines 47-59 from the k-th sequence item on
ProcessSequenceFrom(df, rule_group, k) ==
    IF k > Len(Elems(rule_group.seq)) THEN POk(df)
    ELSE
      LET item == Elems(rule_group.seq)[k]
          r == IF GetRaises(item) THEN PRaise
               ELSE IF item.type = Str("rule") /\ item.index # Absent
                       /\ HasKey(rule_group, "rule", item.index.n)
                 THEN LET rule == Lookup(rule_group, "rule", item.index.n)
                      IN  IF GetRaises(rule) THEN PRaise
                          ELSE _process_indicator(df,
                                   IF rule.indicator = Absent
                                     THEN Indicator(Absent) ELSE rule.indicator)
               ELSE IF item.type = Str("group") /\ item.index # Absent
                       /\ HasKey(rule_group, "group", item.index.n)
                 THEN _process_rule_group(df, Lookup(rule_group, "group", item.index.n))
               ELSE POk(df)
      IN  IF r.exc THEN r ELSE ProcessSequenceFrom(r.df, rule_group, k + 1)

\* the loop of lines 62-67 from the k-th entry on
ProcessItemsFrom(df, rule_group, k) ==
    IF k > Len(rule_group.items) THEN POk(df)
    ELSE
      LET e == rule_group.items[k]
          r == IF e.kind = "rule"
                 THEN IF InRaises(e.val) THEN PRaise    \* `"indicator" in None`
                      ELSE IF KeyIn(e.val, "indicator")
                        THEN _process_indicator(df, e.val.indicator)
                      ELSE POk(df)
               ELSE IF e.kind = "group" THEN _process_rule_group(df, e.val)
               ELSE POk(df)
      IN  IF r.exc THEN r ELSE ProcessItemsFrom(r.df, rule_group, k + 1)

_process_rule_group(df, rule_group) ==
    IF ~IsDict(rule_group) THEN PRaise
    ELSE IF rule_group.seq # Absent
      THEN IF rule_group.seq.tag # "list" THEN PRaise
           ELSE ProcessSequenceFrom(df, rule_group, 1)
    ELSE ProcessItemsFrom(df, rule_group, 1)

\* strategy_config.get(key, {})
GetRules(v) == IF v = Absent THEN Tree(Absent, <<>>) ELSE v

\* init(): buy rules first, then sell rules
StrategyInitResult(df, strategy_config) ==
    LET b == _process_rule_group(df, GetRules(strategy_config.buyRules))
    IN  IF b.exc THEN b
        ELSE _process_rule_group(b.df, GetRules(strategy_config.sellRules))

-----------------------------------------------------------------------------
(* Inputs: candle lists and strategies of bounded size *)

Candle(c) ==
    [time |-> c, open |-> c, high |-> c + 1, low |-> c - 1, close |-> c, volume |-> 1]

\* no candles at all, or NumCandles candles with rising closes 1, 2, ...
CandleLists == { <<>>, [k \in 1..NumCandles |-> Candle(k)] }

AND == Str("AND")
OR  == Str("OR")
XOR == Str("XOR")

\* rules over the pseudo-indicator "Price" (the close, always >= 1 here)
RuleTrue   == Rule(Indicator(Str(sPrice)), Condition(Str(">"), Num(0)))
RuleFalse  == Rule(Indicator(Str(sPrice)), Condition(Str("<"), Num(0)))
RuleLate   == Rule(Indicator(Str(sPrice)), Condition(Str(">="), Num(3)))
\* rules whose evaluation meets an error or a failed resolution
RuleBadValue   == Rule(Indicator(Str(sPrice)), Condition(Str(">"), Str(<<"a", "b", "c">>)))
RuleNullValue  == Rule(Indicator(Str(sPrice)), Condition(Str(">"), Null))
RuleUnresolved == Rule(Indicator(Str(sNOPE)), Condition(Str("<"), Num(30)))
\* a name that is no indicator but is part of a column name of the frame
RuleColumn     == Rule(Indicator(Str(sLow)), Condition(Str(">"), Num(0)))
\* malformed rules
RuleNoIndicator == Rule(Absent, Condition(Str(">"), Num(0)))
RuleNoName      == Rule(Indicator(Absent), Condition(Str(">"), Num(0)))
RuleEmptyName   == Rule(Indicator(Str(sEmpty)), Condition(Str(">"), Num(0)))
RuleNoCondition == Rule(Indicator(Str(sPrice)), Absent)
RuleNoValue     == Rule(Indicator(Str(sPrice)), Condition(Str(">"), Absent))
RuleNoSymbol    == Rule(Indicator(Str(sPrice)), Condition(Absent, Num(0)))
RuleBadSymbol   == Rule(Indicator(Str(sPrice)), Condition(Str("=~"), Num(0)))
RuleNullIndicator == Rule(Null, Condition(Str(">"), Num(0)))
RuleEmpty       == Rule(Absent, Absent)

Term(kind, val) == [kind |-> kind, val |-> val]
RuleTerms(rules) == {Term("rule", r) : r \in rules}
GroupTerms(trees) == {Term("group", t) : t \in trees}

\* all sequences over S of length lo..hi
SeqsOf(S, lo, hi) == UNION {[1..n -> S] : n \in lo..hi}

Max(a, b) == IF a > b THEN a ELSE b
Reverse(q) == [k \in 1..Len(q) |-> q[Len(q) + 1 - k]]

RECURSIVE Interleave(_, _, _)
\* term k under the key rule<k> or group<k>, operator k under operator<k>,
\* written in the order term0, operator0, term1, operator1, ...
Interleave(terms, ops, k) ==
    IF k >= Max(Len(terms), Len(ops)) THEN <<>>
    ELSE (IF k < Len(terms)
            THEN <<Entry(terms[k + 1].kind, k, terms[k + 1].val)>> ELSE <<>>)
         \o (IF k < Len(ops) THEN <<Entry("operator", k, ops[k + 1])>> ELSE <<>>)
         \o Interleave(terms, ops, k + 1)

ItemFor(e) == SeqItem(Str(e.kind), Num(e.idx))
ItemsFor(entries) == [k \in 1..Len(entries) |-> ItemFor(entries[k])]

\* the "_sequence" value of a tree with the given entries
SequenceFor(opt, entries) ==
    LET id == ItemsFor(entries)
        terms == SelectSeq(id, LAMBDA it : it.type # Str("operator"))
        ops   == SelectSeq(id, LAMBDA it : it.type = Str("operator"))
    IN  CASE opt = "none"     -> Absent
          [] opt = "id"       -> List(id)
          [] opt = "revterms" -> List(Reverse(terms) \o ops)
          [] opt = "reversed" -> List(Reverse(id))
          [] opt = "gap"      ->
               List(IF id = <<>> THEN id
                    ELSE <<id[1], SeqItem(Str("rule"), Num(Len(entries)))>> \o Tail(id))
          [] opt = "termsonly" -> List(terms)
          [] opt = "first"    -> List(IF id = <<>> THEN id ELSE <<id[1]>>)
          [] opt = "dangling" -> List(Append(id, SeqItem(Str("rule"), Num(Len(entries)))))
          [] opt = "baditem"  -> List(<<SeqItem(Str("rule"), Absent)>> \o id)
          [] opt = "nullitem" -> List(Append(id, Null))
          [] opt = "nullseq"  -> Null

MkTree(terms, ops, rev, opt) ==
    LET entries == Interleave(terms, ops, 0)
    IN  Tree(SequenceFor(opt, entries), IF rev THEN Reverse(entries) ELSE entries)

\* flat trees of true/false rules: every shape up to MaxTerms terms and
\* MaxOps operators, keys inserted in index order or in reverse
BoolTerms == RuleTerms({RuleTrue, RuleFalse})
FlatTrees ==
    { MkTree(ts, os, rev, opt) :
        ts \in SeqsOf(BoolTerms, 0, MaxTerms), os \in SeqsOf({AND, OR}, 0, MaxOps),
        rev \in BOOLEAN, opt \in {"none", "id", "revterms"} }

\* groups of two rules joined by one operator, with and without "_sequence"
InnerGroups ==
    { MkTree(ts, <<OR>>, FALSE, "none") : ts \in SeqsOf(BoolTerms, 2, 2) }
    \cup { MkTree(ts, <<AND>>, FALSE, "id") : ts \in SeqsOf(BoolTerms, 2, 2) }

\* trees whose terms are rules and groups
GroupTrees ==
    { MkTree(ts, os, FALSE, opt) :
        ts \in SeqsOf(BoolTerms \cup GroupTerms(InnerGroups), 1, 2),
        os \in SeqsOf({AND, OR}, 0, 1), opt \in {"none", "id"} }

\* trees with rules whose evaluation fails, or whose operators are unusable
ErrorTerms ==
    RuleTerms({RuleTrue, RuleFalse, RuleLate, RuleBadValue, RuleNullValue,
               RuleUnresolved, RuleColumn, RuleEmpty})
ErrorTrees ==
    { MkTree(ts, os, FALSE, opt) :
        ts \in SeqsOf(ErrorTerms, 1, 2), os \in SeqsOf({AND, OR, XOR}, 0, 1),
        opt \in {"none", "id"} }

RECURSIVE Nested(_, _)
\* t wrapped in d levels of {"group0": ...}
Nested(t, d) ==
    IF d = 0 THEN t ELSE Tree(Absent, <<Entry("group", 0, Nested(t, d - 1))>>)

MaxDepth == 2      \* nesting of groups around a malformed rule

\* trees with malformed entries
MalformedRules ==
    {RuleNoIndicator, RuleNoName, RuleEmptyName, RuleNoCondition, RuleNoValue,
     RuleNoSymbol, RuleBadSymbol, RuleNullIndicator, Null, EmptyList}
MalformedGroups ==
    { Nested(MkTree(<<Term("rule", r)>>, <<>>, FALSE, "none"), d) :
        r \in {RuleNoCondition, RuleBadSymbol}, d \in 0..(MaxDepth - 1) }
    \cup {Null}
ValidationTerms ==
    RuleTerms({RuleTrue} \cup MalformedRules)
    \cup GroupTerms(MalformedGroups \cup {MkTree(<<Term("rule", RuleTrue)>>, <<>>, FALSE, "none")})
ValidationTrees ==
    { MkTree(ts, os, FALSE, opt) :
        ts \in SeqsOf(ValidationTerms, 0, 2), os \in SeqsOf({AND, XOR}, 0, 1),
        opt \in {"none", "id"} }

\* trees whose "_sequence" lists its items in another order, lists only the
\* first, refers to an absent key, or holds an item that is malformed
SequenceTerms ==
    RuleTerms({RuleTrue, RuleNoCondition, RuleBadSymbol, Null})
    \cup GroupTerms({MkTree(<<Term("rule", RuleNoValue)>>, <<>>, FALSE, "none")})
SequenceTrees ==
    { MkTree(ts, os, FALSE, opt) :
        ts \in SeqsOf(SequenceTerms, 0, 2), os \in SeqsOf({AND, XOR}, 0, 1),
        opt \in {"revterms", "first", "dangling", "baditem", "nullitem", "nullseq"} }

\* trees with operators whose "_sequence" lists the entries in reverse,
\* [rule1, operator0, rule0], has an item naming an absent rule after its
\* first item, or lists the rules and groups only
ZipTrees ==
    { MkTree(ts, os, FALSE, opt) :
        ts \in SeqsOf(BoolTerms, 2, MaxTerms), os \in SeqsOf({AND, OR}, 1, MaxOps),
        opt \in {"reversed", "gap", "termsonly"} }

\* values under buyRules / sellRules that are no mapping
NonMappings == {Null, EmptyList, Num(5)}

\* the second tree of a strategy with two trees
SideTrees ==
    { Absent, Tree(Absent, <<>>), Null,
      MkTree(<<Term("rule", RuleTrue)>>, <<>>, FALSE, "none"),
      MkTree(<<Term("rule", RuleLate)>>, <<>>, FALSE, "none"),
      MkTree(<<Term("rule", RuleNoCondition)>>, <<>>, FALSE, "none"),
      MkTree(<<Term("rule", RuleBadSymbol), Term("rule", RuleTrue)>>, <<XOR>>, FALSE, "id"),
      MkTree(<<Term("rule", RuleTrue), Term("rule", RuleFalse)>>, <<AND>>, FALSE, "revterms") }

AllTrees ==
    FlatTrees \cup GroupTrees \cup ErrorTrees \cup ValidationTrees
    \cup SequenceTrees \cup ZipTrees \cup NonMappings

Strategies ==
    { Strategy(t, Absent) : t \in AllTrees }
    \cup { Strategy(a, b) : a \in SideTrees, b \in SideTrees }

\* rules over catalog indicators: by canonical name with two window
\* lengths, by display name, and without settings
RuleSMA1    == Rule(IndicatorWith(Str(sSMA), Settings(1)), Condition(Str(">="), Num(3)))
RuleSMA3    == Rule(IndicatorWith(Str(sSMA), Settings(3)), Condition(Str(">="), Num(3)))
RuleAlias1  == Rule(IndicatorWith(Str(sMovingAverage), Settings(1)),
                    Condition(Str(">="), Num(3)))
RuleSMADefault == Rule(Indicator(Str(sSMA)), Condition(Str(">"), Num(0)))
IndicatorTerms ==
    RuleTerms({RuleSMA1, RuleSMA3, RuleAlias1, RuleSMADefault, RuleFalse})
IndicatorTrees ==
    { MkTree(ts, os, FALSE, opt) :
        ts \in SeqsOf(IndicatorTerms, 1, 2), os \in SeqsOf({AND, OR}, 0, 1),
        opt \in {"none", "id"} }
\* strategies that use the catalog
IndicatorStrategies ==
    { Strategy(t, Absent) : t \in IndicatorTrees }
    \cup { Strategy(MkTree(<<Term("rule", a)>>, <<>>, FALSE, "none"),
                    MkTree(<<Term("rule", b)>>, <<>>, FALSE, "none")) :
             a \in {RuleTrue, RuleSMA1}, b \in {RuleSMA1, RuleSMA3, RuleAlias1} }

-----------------------------------------------------------------------------
(* The service: one request, served to its response *)

\* an exception of a type with a message; no result is returned with it
Raised(type, msg) == [exc |-> TRUE, type |-> type, msg |-> msg, result |-> <<>>]

\* BacktestResult.to_dict(): the four parts of a complete result
Returned(trades) ==
    [exc |-> FALSE, type |-> "none", msg |-> <<>>,
     result |-> <<"trades", "equity_curve", "equity_times", "metrics">>]

\* run_backtest has not been called
NoOutcome == [exc |-> FALSE, type |-> "none", msg |-> <<>>, result |-> <<>>]

\* the order in which discovery stores the entries: inspect.getmembers
\* lists the functions of the library by name
DiscoveryOrder == <<sRSI, sSMA>>

\* the catalog is complete and no other thread is running
NoRace == populated = DiscoveryOrder /\ runs = <<>>

\* nothing is stored under the run
NoRows == [result |-> FALSE, trades |-> <<>>]

\* no caller is saving a result
NoPersist == [caller |-> "none", run_id |-> 0, trades |-> <<>>, stage |-> "none"]

AuxInit == outcome = NoOutcome /\ NoRace /\ db = NoRows /\ persist = NoPersist

NoEval == [which |-> "none", i |-> 0, res |-> EOk(FALSE)]
NoResponse == [endpoint |-> "none", status |-> 0, valid |-> FALSE, message |-> <<>>]
Response(endpoint, status, valid, message) ==
    [endpoint |-> endpoint, status |-> status, valid |-> valid, message |-> message]

\* the `params` mapping of the strategy class: the keys init() reads
Params(sizing, risk, sl, tp, ts) ==
    [position_sizing |-> sizing, risk_percentage |-> risk, stop_loss |-> sl,
     take_profit |-> tp, trailing_stop |-> ts]

\* the defaults of init(): fixed sizing, 2 percent risk, no stop, no target
DefaultParams == Params("fixed", 2, 0, 0, 0)

\* percentages are whole numbers here
ParamSets ==
    { DefaultParams,
      Params("percentage", 2, 0, 0, 0),
      Params("risk_based", 2, 5, 10, 0),
      Params("risk_based", 2, 2, 0, 0),
      Params("risk_based", 2, 0, 10, 0),
      Params("fixed", 2, 5, 10, 10),
      Params("fixed", 2, 0, 0, 10),
      Params("kelly", 2, 5, 0, 0) }

\* strategies that trade: one rule to buy, at most one rule to sell
TradingStrategies ==
    { Strategy(MkTree(<<Term("rule", a)>>, <<>>, FALSE, "none"), s) :
        a \in {RuleTrue, RuleLate},
        s \in {Absent} \cup { MkTree(<<Term("rule", b)>>, <<>>, FALSE, "none") :
                                b \in {RuleTrue, RuleLate, RuleFalse} } }

\* the attributes init() sets from params
stop_loss_pct     == strategy_params.stop_loss
take_profit_pct   == strategy_params.take_profit
trailing_stop_pct == strategy_params.trailing_stop
position_sizing   == strategy_params.position_sizing
risk_percentage   == strategy_params.risk_percentage

\* a stop or target level: a price in hundredths, or not set
NoLevel  == [set |-> FALSE, level |-> 0]
Level(n) == [set |-> TRUE, level |-> n]

\* a size is an exact quotient num / den
Frac(n, d) == [num |-> n, den |-> d]
NoSize == Frac(0, 0)
NoSizing == [equity |-> 0, price |-> 0, size |-> NoSize]

\* no trade is open
NoTrade == [open |-> FALSE, signal_bar |-> 0, entry_bar |-> 0, sl |-> NoLevel, tp |-> NoLevel]

\* A strategy that names no catalog indicator runs the same under either
\* catalog; one that does is run under both.  Strategies that trade are run
\* under every parameter set.
Init ==
    /\ pc = "idle"
    /\ \/ strategy \in Strategies /\ catalog_source = "talib" /\ strategy_params = DefaultParams
       \/ /\ strategy \in IndicatorStrategies
          /\ catalog_source \in {"talib", "pandas_ta"}
          /\ strategy_params = DefaultParams
       \/ strategy \in TradingStrategies /\ catalog_source = "talib" /\ strategy_params \in ParamSets
    /\ candles \in CandleLists
    /\ data_df = <<>>
    /\ built = FALSE
    /\ bar = 0
    /\ processed = 0
    /\ position = "flat"
    /\ pending = "none"
    /\ traded = FALSE
    /\ lastEval = NoEval
    /\ reEval = NoEval
    /\ stop_loss = NoLevel
    /\ take_profit = NoLevel
    /\ trade = NoTrade
    /\ sized = NoSizing
    /\ response = NoResponse
    /\ AuxInit

\* `if not strategy`: an empty mapping
StrategyGiven(s) == s.buyRules # Absent \/ s.sellRules # Absent

\* POST /validate-strategy
PostValidate ==
    /\ pc = "idle"
    /\ pc' = "done"
    /\ response' =
         IF ~StrategyGiven(strategy)
           THEN Response("validate", 400, FALSE, <<"No strategy provided">>)
         ELSE LET r == validate_strategy(strategy)
              IN  IF r.exc
                    THEN Response("validate", 500, FALSE, <<"Failed to validate strategy: ">> \o r.msg)
                    ELSE Response("validate", 200, r.ok, r.msg)
    /\ UNCHANGED <<strategy, candles, data_df, built, bar, processed, position, pending,
                   traded, catalog_source, lastEval, reEval, strategy_params, stop_loss,
                   take_profit, trade, sized>>
    /\ UNCHANGED auxVars

\* build_strategy: the class statement raises NameError before any class
\* exists, whatever the arguments
build_strategy(strategy_config) ==
    Raised("NameError", <<"name 'strategy_config' is not defined">>)

\* the keys CandleData.from_dict reads with data[...], in the order it
\* reads them
CandleFields == <<"time", "open", "high", "low", "close", "volume">>

\* CandleData.from_dict: data[key] raises KeyError(key) at the first key the
\* candle lacks; str(KeyError('open')) is "'open'"
from_dict(data) ==
    LET missing == { k \in 1..Len(CandleFields) : CandleFields[k] \notin DOMAIN data }
    IN  IF missing = {} THEN [exc |-> FALSE]
        ELSE LET first == CHOOSE k \in missing : \A j \in missing : k <= j
             IN  Raised("KeyError", <<"'", CandleFields[first], "'">>)

RECURSIVE candles_to_dataframe(_)
\* candles_to_dataframe: the candles are converted in list order; the frame
\* of an empty list has no columns
candles_to_dataframe(candle_list) ==
    IF candle_list = <<>> THEN [exc |-> FALSE, columns |-> {}]
    ELSE LET c == from_dict(Head(candle_list))
         IN  IF c.exc THEN c
             ELSE LET rest == candles_to_dataframe(Tail(candle_list))
                  IN  IF rest.exc THEN rest
                      ELSE [exc |-> FALSE,
                            columns |-> {"open", "high", "low", "close", "volume", "symbol_id"}]

\* the exception leaves run_backtest as it is
Reraised(e) == e

\* except Exception as e: raise RuntimeError(f"Failed to run backtest: ...")
AsRuntimeError(e) == Raised("RuntimeError", <<"Failed to run backtest: ">> \o e.msg)

\* run_backtest: the frame is made and checked for its columns, the strategy
\* class is asked for, the backtest is run; every exception becomes a
\* RuntimeError
run_backtest(candle_list, strategy_config) ==
    LET frame == candles_to_dataframe(candle_list)
        c     == build_strategy(strategy_config)
    IN  IF frame.exc THEN AsRuntimeError(frame)
        ELSE IF "open" \notin frame.columns
          THEN AsRuntimeError(Raised("ValueError",
                                     <<"Required column ", "open", " not found in data">>))
        ELSE IF c.exc THEN AsRuntimeError(c)
        ELSE Returned(<<>>)

\* POST /backtest: the inputs are checked for presence and run_backtest is
\* called; validate_strategy is not
PostBacktest ==
    /\ pc = "idle"
    /\ IF candles = <<>>
         THEN /\ response' = Response("backtest", 400, FALSE, <<"No candle data provided">>)
              /\ pc' = "done"
              /\ UNCHANGED <<data_df, built>>
       ELSE IF ~StrategyGiven(strategy)
         THEN /\ response' = Response("backtest", 400, FALSE, <<"No strategy provided">>)
              /\ pc' = "done"
              /\ UNCHANGED <<data_df, built>>
       ELSE LET r == run_backtest(candles, strategy)
            IN  IF r.exc
                  THEN /\ response' = Response("backtest", 500, FALSE,
                                               <<"Failed to run backtest: ">> \o r.msg)
                       /\ pc' = "done"
                       /\ UNCHANGED <<data_df, built>>
                  ELSE /\ data_df' = DataFrame(candles)
                       /\ built' = TRUE
                       /\ pc' = "init"
                       /\ UNCHANGED response
    /\ UNCHANGED <<strategy, candles, bar, processed, position, pending, traded,
                   catalog_source, lastEval, reEval, strategy_params, stop_loss, take_profit,
                   trade, sized>>
    /\ UNCHANGED auxVars

\* Backtest(df, S, ...).run() begins for a subclass S of DynamicStrategy
\* that carries the strategy as its strategy_config and the parameters as
\* its params
RunStrategy ==
    /\ pc = "idle"
    /\ candles # <<>>
    /\ data_df' = DataFrame(candles)
    /\ built' = TRUE
    /\ pc' = "init"
    /\ UNCHANGED <<strategy, candles, bar, processed, position, pending, traded,
                   catalog_source, lastEval, reEval, strategy_params, stop_loss, take_profit,
                   trade, sized, response>>
    /\ UNCHANGED auxVars

\* an exception leaves bt.run()
Failed == Response("run", 0, FALSE, <<"raised">>)

\* the strategy object is made and its init() is called
StrategyInit ==
    /\ pc = "init"
    /\ LET r == StrategyInitResult(data_df, strategy)
       IN  IF r.exc
             THEN /\ response' = Failed
                  /\ pc' = "done"
                  /\ UNCHANGED data_df
             ELSE /\ data_df' = r.df
                  /\ pc' = "next"
                  /\ UNCHANGED response
    /\ UNCHANGED <<strategy, candles, built, bar, processed, position, pending, traded,
                   catalog_source, lastEval, reEval, strategy_params, stop_loss, take_profit,
                   trade, sized>>
    /\ UNCHANGED auxVars

\* BacktestParameters.from_dict: the default initial_capital
InitialCapital == 10000

\* Equity is the initial capital until a trade has been closed.  After that
\* it has moved by the trade's profit and commission, which are not
\* modelled: it is then one of two amounts, one that divides evenly into
\* units at the prices of the run and one that does not.
Equities == {InitialCapital, InitialCapital + 1}

\* commission_rate 0.1 percent, handed to Backtest as 0.001: per mille
CommissionPerMille == 1

\* _calculate_position_size with the policy that ignores the stop distance
_calculate_position_size_without_stop(equity, price, sizing, risk, sl) ==
    LET fixed == Frac(equity, 10 * price)
    IN  IF sizing = "fixed" THEN fixed
        ELSE IF sizing = "percentage" THEN Frac(equity * risk, 100 * price)
        ELSE IF sizing = "risk_based"
          THEN IF sl = 0 THEN fixed ELSE Frac(equity * risk, 100 * price)
        ELSE fixed

\* _calculate_position_size: the number of units as an exact quotient.
\* 0.1 * equity / price is equity / (10 price); (equity * risk / 100) /
\* (price * sl / 100) is (equity * risk * 100) / (100 * price * sl).
_calculate_position_size(equity, price, sizing, risk, sl) ==
    LET fixed == Frac(equity, 10 * price)
    IN  IF sizing = "fixed" THEN fixed
        ELSE IF sizing = "percentage" THEN Frac(equity * risk, 100 * price)
        ELSE IF sizing = "risk_based"
          THEN IF sl = 0 THEN fixed ELSE Frac(equity * risk * 100, 100 * price * sl)
        ELSE fixed

\* Strategy.buy(size=...) accepts a fraction of equity (0 < size < 1) or a
\* whole number of units and raises AssertionError on anything else
BuyAccepts(size) ==
    \/ 0 < size.num /\ size.num < size.den
    \/ size.num % size.den = 0

\* self.buy(size=size): the order carries the size and neither sl nor tp
BuyOrder(size) == [size |-> size, sl |-> NoLevel, tp |-> NoLevel]

Open(df) == ColumnNamed(df, DfColumns[1]).series
High(df) == ColumnNamed(df, DfColumns[2]).series

\* The broker fills a market order at the next bar's open, commission added.
\* A whole number of units is bought if it costs no more than the cash at
\* hand; a fraction of equity buys the units it pays for, if there is one.
\* Otherwise the order is cancelled.
Affordable(sizing, open) ==
    LET adjusted == open * (1000 + CommissionPerMille)
        size     == sizing.size
    IN  IF size.num % size.den = 0
          THEN (size.num \div size.den) * adjusted <= sizing.equity * 1000
        ELSE (sizing.equity * size.num * 1000) \div (size.den * adjusted) >= 1

\* the position after the broker has handled the order left by the last bar
Filled(pos, order, affordable) ==
    IF order = "buy" THEN (IF affordable THEN "long" ELSE pos)
    ELSE IF order = "close" THEN "flat" ELSE pos

\* the trade a filled buy order opens: it holds the order's sl and tp
Trade(signal_bar, entry_bar, order) ==
    [open |-> TRUE, signal_bar |-> signal_bar, entry_bar |-> entry_bar,
     sl |-> order.sl, tp |-> order.tp]

\* The trailing-stop update of next(): max(self.data.High[
\* self.position.entry_time:i+1]) is evaluated first, and backtesting.py's
\* Position has size, pl, pl_pct, is_long, is_short and close() but no
\* entry_time: AttributeError, the stop is left as it was
UpdateTrailingStop(df, i, stop, pct) == [exc |-> TRUE, stop |-> stop]

\* evaluation that leaves a computed value behind in the frame
EvaluatedFrameWritten(df) ==
    Assign(df, sClose, [k \in 1..Len(Close(df)) |-> 0])

\* The frame after _evaluate_rules has run: the evaluator and
\* _get_indicator_value read self.data.df and self.data.Close and assign
\* nothing
EvaluatedFrame(df) == df

\* next() that writes the stop it computed into the stop-loss percentage
ParamsAfterNextOverwritten(p) == [p EXCEPT !.stop_loss = p.stop_loss + 1]

\* The risk parameters after next(): next(), the evaluators and
\* _calculate_position_size read stop_loss_pct, take_profit_pct,
\* trailing_stop_pct, position_sizing and risk_percentage; the only
\* attributes next() assigns are stop_loss and take_profit
ParamsAfterNext(p) == p

\* bar i = bar + 1 is handed to the broker, then to next().  The loop of
\* Backtest.run starts at index 1.
\* a test that sends every step to the buy branch
NoPositionEver(pos) == TRUE

\* `not self.position` (line 243); the branch of line 259 is its elif
NoPosition(pos) == pos = "flat"

NextCandle ==
    /\ pc = "next"
    /\ bar + 1 < Len(candles)
    /\ LET i   == bar + 1
           pos == Filled(position, pending,
                         pending = "buy" /\ Affordable(sized, Open(data_df)[i + 1]))
       IN  /\ bar' = i
           /\ position' = pos
           /\ trade' = IF pos = "flat" THEN NoTrade
                       ELSE IF position = "flat" THEN Trade(bar, i, BuyOrder(sized.size))
                       ELSE trade
           /\ traded' = (traded \/ (position = "long" /\ pos = "flat"))
           /\ processed' = processed + 1
           /\ IF NoPosition(pos)
                THEN LET rules == GetRules(strategy.buyRules)
                     IN  IF ~Truthy(rules)
                           THEN /\ pending' = "none"
                                /\ UNCHANGED <<lastEval, pc, response, data_df, sized,
                                               stop_loss, take_profit>>
                         ELSE LET ev == _evaluate_rules(data_df, rules, i)
                              IN  /\ lastEval' = [which |-> "buy", i |-> i, res |-> ev]
                                  /\ data_df' = EvaluatedFrame(data_df)
                                  /\ IF ev.exc
                                       THEN /\ response' = Failed
                                            /\ pc' = "done"
                                            /\ pending' = "none"
                                            /\ UNCHANGED <<sized, stop_loss, take_profit>>
                                     ELSE IF ~ev.val
                                       THEN /\ pending' = "none"
                                            /\ UNCHANGED <<pc, response, sized, stop_loss,
                                                           take_profit>>
                                     ELSE \E equity \in (IF traded' THEN Equities
                                                         ELSE {InitialCapital}) :
                                            LET price == Close(data_df)[i + 1]
                                                size  == _calculate_position_size(
                                                             equity, price, position_sizing,
                                                             risk_percentage, stop_loss_pct)
                                            IN  /\ sized' = [equity |-> equity, price |-> price,
                                                             size |-> size]
                                                /\ IF BuyAccepts(size)
                                                     THEN /\ pending' = "buy"
                                                          /\ stop_loss' =
                                                               IF stop_loss_pct > 0
                                                                 THEN Level(price * (100 - stop_loss_pct))
                                                               ELSE stop_loss
                                                          /\ take_profit' =
                                                               IF take_profit_pct > 0
                                                                 THEN Level(price * (100 + take_profit_pct))
                                                               ELSE take_profit
                                                          /\ UNCHANGED <<pc, response>>
                                                   ELSE /\ response' = Failed
                                                        /\ pc' = "done"
                                                        /\ pending' = "none"
                                                        /\ UNCHANGED <<stop_loss, take_profit>>
              ELSE LET rules == GetRules(strategy.sellRules)
                       ts    == IF trailing_stop_pct > 0
                                  THEN UpdateTrailingStop(data_df, i, stop_loss,
                                                          trailing_stop_pct)
                                ELSE [exc |-> FALSE, stop |-> stop_loss]
                   IN  /\ stop_loss' = ts.stop
                       /\ UNCHANGED <<take_profit, sized>>
                       /\ IF ts.exc
                            THEN /\ response' = Failed
                                 /\ pc' = "done"
                                 /\ pending' = "none"
                                 /\ UNCHANGED <<lastEval, data_df>>
                          ELSE IF ~Truthy(rules)
                            THEN /\ pending' = "none"
                                 /\ UNCHANGED <<lastEval, pc, response, data_df>>
                          ELSE LET ev == _evaluate_rules(data_df, rules, i)
                               IN  /\ lastEval' = [which |-> "sell", i |-> i, res |-> ev]
                                   /\ data_df' = EvaluatedFrame(data_df)
                                   /\ IF ev.exc
                                        THEN /\ response' = Failed
                                             /\ pc' = "done"
                                             /\ pending' = "none"
                                      ELSE /\ pending' = IF ev.val THEN "close" ELSE "none"
                                           /\ UNCHANGED <<pc, response>>
    /\ strategy_params' = ParamsAfterNext(strategy_params)
    /\ UNCHANGED <<strategy, candles, built, catalog_source, reEval>>
    /\ UNCHANGED auxVars

\* the rule tree of the last evaluation is evaluated once more at the same
\* index, on the frame the first evaluation left
EvaluateAgain ==
    /\ pc = "next"
    /\ lastEval.which # "none"
    /\ reEval.which # lastEval.which \/ reEval.i # lastEval.i
    /\ LET rules == IF lastEval.which = "buy" THEN GetRules(strategy.buyRules)
                    ELSE GetRules(strategy.sellRules)
       IN  /\ reEval' = [which |-> lastEval.which, i |-> lastEval.i,
                         res |-> _evaluate_rules(data_df, rules, lastEval.i)]
           /\ data_df' = EvaluatedFrame(data_df)
    /\ UNCHANGED <<pc, strategy, candles, built, bar, processed, position, pending,
                   traded, catalog_source, lastEval, strategy_params, stop_loss, take_profit,
                   trade, sized, response>>
    /\ UNCHANGED auxVars

\* the last bar has been processed: bt.run() returns its statistics
Finish ==
    /\ pc = "next"
    /\ bar + 1 >= Len(candles)
    /\ pc' = "done"
    /\ response' = Response("run", 0, TRUE, <<"returned">>)
    /\ UNCHANGED <<strategy, candles, data_df, built, bar, processed, position, pending,
                   traded, catalog_source, lastEval, reEval, strategy_params, stop_loss,
                   take_profit, trade, sized>>
    /\ UNCHANGED auxVars

Next ==
    \/ PostValidate
    \/ PostBacktest
    \/ RunStrategy
    \/ StrategyInit
    \/ NextCandle
    \/ EvaluateAgain
    \/ Finish

Spec == Init /\ [][Next]_vars

-----------------------------------------------------------------------------
(* _calculate_position_size on its own: one call per input *)

SizeEquities   == {1000, InitialCapital, InitialCapital + 1}
SizePrices     == {1, 3, 100}
SizePolicies   == {"fixed", "percentage", "risk_based", "kelly"}
SizeRisks      == {1, 2}
SizeStops      == {0, 2, 5}

SizeInit ==
    /\ pc = "size"
    /\ strategy_params \in { Params(s, r, sl, 0, 0) :
                      s \in SizePolicies, r \in SizeRisks, sl \in SizeStops }
    /\ sized \in { [equity |-> e, price |-> p, size |-> NoSize] :
                     e \in SizeEquities, p \in SizePrices }
    /\ strategy = Strategy(Absent, Absent)
    /\ catalog_source = "talib"
    /\ candles = <<>>
    /\ data_df = <<>>
    /\ built = FALSE
    /\ bar = 0
    /\ processed = 0
    /\ position = "flat"
    /\ pending = "none"
    /\ traded = FALSE
    /\ lastEval = NoEval
    /\ reEval = NoEval
    /\ stop_loss = NoLevel
    /\ take_profit = NoLevel
    /\ trade = NoTrade
    /\ response = NoResponse
    /\ AuxInit

\* size = self._calculate_position_size(price)
CalculateSize ==
    /\ pc = "size"
    /\ pc' = "done"
    /\ sized' = [sized EXCEPT !.size =
                    _calculate_position_size(sized.equity, sized.price, position_sizing,
                                             risk_percentage, stop_loss_pct)]
    /\ UNCHANGED <<strategy, candles, data_df, built, bar, processed, position, pending,
                   traded, catalog_source, lastEval, reEval, strategy_params, stop_loss,
                   take_profit, trade, response>>
    /\ UNCHANGED auxVars

SizeNext == CalculateSize

SizeSpec == SizeInit /\ [][SizeNext]_vars

-----------------------------------------------------------------------------
(* run_backtest on its own: one call per candle list *)

\* the engine and the request handlers at rest, the caller at position p
EngineAt(p) ==
    /\ pc = p
    /\ catalog_source = "talib"
    /\ strategy_params = DefaultParams
    /\ data_df = <<>>
    /\ built = FALSE
    /\ bar = 0
    /\ processed = 0
    /\ position = "flat"
    /\ pending = "none"
    /\ traded = FALSE
    /\ lastEval = NoEval
    /\ reEval = NoEval
    /\ stop_loss = NoLevel
    /\ take_profit = NoLevel
    /\ trade = NoTrade
    /\ sized = NoSizing
    /\ response = NoResponse

\* the longest candle list handed to run_backtest
MaxRaw == 2

\* a candle mapping without one of its keys
Without(c, field) == [f \in (DOMAIN Candle(c)) \ {field} |-> Candle(c)[f]]

\* a complete candle, or one that lacks a required field
RawCandles(c) ==
    {Candle(c)} \cup { Without(c, CandleFields[k]) : k \in 1..Len(CandleFields) }

\* no candle at all, or up to MaxRaw candles in time order
RawCandleLists ==
    UNION { { cs \in [1..n -> UNION { RawCandles(c) : c \in 1..n }] :
                \A k \in 1..n : cs[k] \in RawCandles(k) } : n \in 0..MaxRaw }

BacktestInit ==
    /\ EngineAt("call")
    /\ strategy \in TradingStrategies
    /\ candles \in RawCandleLists
    /\ AuxInit

\* result = run_backtest(candles, strategy, params)
CallRunBacktest ==
    /\ pc = "call"
    /\ pc' = "done"
    /\ outcome' = run_backtest(candles, strategy)
    /\ UNCHANGED <<strategy, candles, data_df, built, bar, processed, position, pending,
                   traded, catalog_source, lastEval, reEval, strategy_params, stop_loss,
                   take_profit, trade, sized, response>>
    /\ UNCHANGED <<raceVars, persistVars>>

BacktestNext == CallRunBacktest

BacktestSpec == BacktestInit /\ [][BacktestNext]_vars

-----------------------------------------------------------------------------
(* Concurrent runs over the global catalog INDICATORS *)

\* the request threads of the server
Threads == {1, 2}

\* the indicator a run's strategy names
RaceNames == {sSMA, sRSI, sMovingAverage, sNOPE}

\* a run that has not yet asked for its indicator
Run(name) == [pc |-> "start", name |-> name, stored |-> 0, resolved |-> NoIndicator]

\* get_indicator against the entries INDICATORS holds at the moment
get_indicator_from(names, name) ==
    LET held == { names[k] : k \in 1..Len(names) }
    IN  IF name \in held THEN [name |-> name, source |-> INDICATORS[name]]
        ELSE IF name \in DOMAIN INDICATOR_MAPPING /\ INDICATOR_MAPPING[name] \in held
          THEN [name |-> INDICATOR_MAPPING[name],
                source |-> INDICATORS[INDICATOR_MAPPING[name]]]
        ELSE NoIndicator

RaceInit ==
    /\ EngineAt("race")
    /\ strategy = Strategy(Absent, Absent)
    /\ candles = <<>>
    /\ outcome = NoOutcome
    /\ populated = <<>>
    /\ runs \in [Threads -> { Run(name) : name \in RaceNames }]
    /\ db = NoRows /\ persist = NoPersist

\* get_indicator calls initialize_indicators: `if not INDICATORS` decides
\* whether this thread discovers the libraries
EnterInitialize(t) ==
    /\ pc = "race"
    /\ UNCHANGED <<engineVars, outcome, persistVars>>
    /\ runs[t].pc = "start"
    /\ runs' = [runs EXCEPT ![t].pc = IF populated = <<>> THEN "discover" ELSE "lookup"]
    /\ UNCHANGED populated

\* discovery stores one entry in INDICATORS; storing a name again replaces
\* its entry.  After the last entry the thread goes on to its lookup.
Discover(t) ==
    /\ pc = "race"
    /\ UNCHANGED <<engineVars, outcome, persistVars>>
    /\ runs[t].pc = "discover"
    /\ IF runs[t].stored < Len(DiscoveryOrder)
         THEN LET name == DiscoveryOrder[runs[t].stored + 1]
              IN  /\ populated' = IF \E k \in 1..Len(populated) : populated[k] = name
                                    THEN populated ELSE Append(populated, name)
                  /\ runs' = [runs EXCEPT ![t].stored = @ + 1]
         ELSE /\ runs' = [runs EXCEPT ![t].pc = "lookup"]
              /\ UNCHANGED populated

\* the two lookups of get_indicator
LookUp(t) ==
    /\ pc = "race"
    /\ UNCHANGED <<engineVars, outcome, persistVars>>
    /\ runs[t].pc = "lookup"
    /\ runs' = [runs EXCEPT ![t].pc = "done",
                            ![t].resolved = get_indicator_from(populated, runs[t].name)]
    /\ UNCHANGED populated

RaceNext ==
    \/ \E t \in Threads : EnterInitialize(t)
    \/ \E t \in Threads : Discover(t)
    \/ \E t \in Threads : LookUp(t)

RaceSpec == RaceInit /\ [][RaceNext]_vars

-----------------------------------------------------------------------------
(* Saving a result under a backtest run: the part of run_backtest_with_db
   and of the /backtest/db handler that follows a returned result *)

\* the largest number of trades in a result
MaxTrades == 3

\* the callers that save: run_backtest_with_db and the handler backtest_from_db
Callers == {"run_backtest_with_db", "backtest_from_db"}

\* a backtest_run_id: 0 stands for none given
RunIds == {0, 7}

\* result.get('trades', []): each trade a win or a loss
TradeLists == UNION { [1..n -> {"win", "loss"}] : n \in 0..MaxTrades }

\* run_backtest has returned a result to the caller
PersistInit ==
    /\ EngineAt("saving")
    /\ strategy \in {Strategy(Tree(Absent, <<Entry("rule", 0, RuleTrue)>>), Absent)}
    /\ candles = <<>>
    /\ outcome = NoOutcome /\ NoRace
    /\ db = NoRows
    /\ persist \in [caller : Callers, run_id : RunIds, trades : TradeLists,
                     stage : {"result"}]

\* the error the caller's except clause turns a failed save into: a
\* RuntimeError for run_backtest_with_db, a 500 response for the handler
SaveError(caller, e) ==
    IF caller = "run_backtest_with_db" THEN AsRuntimeError(e)
    ELSE Raised("500", <<"Failed to run backtest: ">> \o e.msg)

\* `if backtest_run_id:` is false: the result is returned unsaved
SkipSave ==
    /\ pc = "saving" /\ persist.stage = "result" /\ persist.run_id = 0
    /\ persist' = [persist EXCEPT !.stage = "done"]
    /\ outcome' = Returned(persist.trades)
    /\ pc' = "done"
    /\ UNCHANGED <<strategy, candles, data_df, built, bar, processed, position, pending,
                   traded, catalog_source, lastEval, reEval, strategy_params, stop_loss,
                   take_profit, trade, sized, response, raceVars, db>>

\* save_backtest_result on a connection of its own: it commits the result
\* row, or rolls back and raises
SaveBacktestResult ==
    /\ pc = "saving" /\ persist.stage = "result" /\ persist.run_id # 0
    /\ \E ok \in BOOLEAN :
         IF ok
           THEN /\ db' = [db EXCEPT !.result = TRUE]
                /\ persist' = [persist EXCEPT !.stage = "trades"]
                /\ UNCHANGED <<pc, outcome>>
         ELSE /\ persist' = [persist EXCEPT !.stage = "done"]
              /\ outcome' = SaveError(persist.caller,
                                Raised("RuntimeError", <<"Failed to save backtest result: ">>))
              /\ pc' = "done"
              /\ UNCHANGED db
    /\ UNCHANGED <<strategy, candles, data_df, built, bar, processed, position, pending,
                   traded, catalog_source, lastEval, reEval, strategy_params, stop_loss,
                   take_profit, trade, sized, response, raceVars>>

\* one pass of the loop over the trades: add_backtest_trade on a connection
\* of its own commits the trade, or rolls back and raises
AddBacktestTrade ==
    /\ pc = "saving" /\ persist.stage = "trades"
    /\ Len(db.trades) < Len(persist.trades)
    /\ \E ok \in BOOLEAN :
         IF ok
           THEN /\ db' = [db EXCEPT !.trades =
                                     Append(@, persist.trades[Len(db.trades) + 1])]
                /\ UNCHANGED <<pc, outcome, persist>>
         ELSE /\ persist' = [persist EXCEPT !.stage = "done"]
              /\ outcome' = SaveError(persist.caller,
                                Raised("RuntimeError", <<"Failed to add backtest trade: ">>))
              /\ pc' = "done"
              /\ UNCHANGED db
    /\ UNCHANGED <<strategy, candles, data_df, built, bar, processed, position, pending,
                   traded, catalog_source, lastEval, reEval, strategy_params, stop_loss,
                   take_profit, trade, sized, response, raceVars>>

\* the loop is over: the caller returns the result
ReturnSaved ==
    /\ pc = "saving" /\ persist.stage = "trades"
    /\ Len(db.trades) = Len(persist.trades)
    /\ persist' = [persist EXCEPT !.stage = "done"]
    /\ outcome' = Returned(persist.trades)
    /\ pc' = "done"
    /\ UNCHANGED <<strategy, candles, data_df, built, bar, processed, position, pending,
                   traded, catalog_source, lastEval, reEval, strategy_params, stop_loss,
                   take_profit, trade, sized, response, raceVars, db>>

PersistNext == SkipSave \/ SaveBacktestResult \/ AddBacktestTrade \/ ReturnSaved

PersistSpec == PersistInit /\ [][PersistNext]_vars

-----------------------------------------------------------------------------
(* Reference semantics of a rule tree, as the properties state it *)

\* the tree next() evaluated last, and the index it evaluated it at
EvalTree ==
    IF lastEval.which = "buy" THEN GetRules(strategy.buyRules)
    ELSE GetRules(strategy.sellRules)
Evaluated == lastEval.which # "none"

IsTermEntry(e) == e.kind \in {"rule", "group"}
\* a sequence item that names a rule or group entry the tree has
IsTermItem(t, it) ==
    /\ IsDict(it) /\ it.type \in {Str("rule"), Str("group")} /\ it.index # Absent
    /\ HasKey(t, it.type.s, it.index.n)
HasSequence(t) == t.seq # Absent /\ t.seq.tag = "list"

\* the rule/group entries of a tree in its iteration order: "_sequence"
\* order if present, else declaration order
OrderedTerms(t) ==
    IF HasSequence(t)
      THEN LET its == SelectSeq(t.seq.elems, LAMBDA it : IsTermItem(t, it))
           IN  [k \in 1..Len(its) |->
                   Entry(its[k].type.s, its[k].index.n,
                         Lookup(t, its[k].type.s, its[k].index.n))]
      ELSE SelectSeq(t.items, IsTermEntry)

\* the operator that joins term j-1 and term j (j >= 1, 0-based): the key
\* operator<j-1> under "_sequence", else the j-th operator declared
HasJoin(t, j) ==
    IF HasSequence(t) THEN HasKey(t, "operator", j - 1)
    ELSE j <= Len(OperatorValues(t))
Join(t, j) ==
    IF HasSequence(t) THEN Lookup(t, "operator", j - 1) ELSE OperatorValues(t)[j]

\* n >= 1 terms and an AND/OR operator between each two consecutive terms
FullyJoined(t) ==
    /\ OrderedTerms(t) # <<>>
    /\ \A j \in 1..(Len(OrderedTerms(t)) - 1) : HasJoin(t, j) /\ IsAndOr(Join(t, j))

RECURSIVE SpecValue(_, _, _)
RECURSIVE LeftFold(_, _, _, _)
\* ((t0 op0 t1) op1 t2) ... up to term n-1 (0-based), no precedence
LeftFold(frame, t, i, n) ==
    LET term == OrderedTerms(t)[n + 1]
        v == IF term.kind = "rule" THEN _evaluate_rule(frame, term.val, i)
             ELSE SpecValue(frame, term.val, i)
    IN  IF n = 0 THEN v
        ELSE IF Join(t, n) = AND THEN LeftFold(frame, t, i, n - 1) /\ v
        ELSE LeftFold(frame, t, i, n - 1) \/ v
\* the value of a fully joined tree of fully joined groups
SpecValue(frame, t, i) ==
    IF OrderedTerms(t) = <<>> THEN FALSE
    ELSE LeftFold(frame, t, i, Len(OrderedTerms(t)) - 1)

RECURSIVE WellJoined(_)
\* the tree and every group in it are mappings with terms that are fully joined
WellJoined(t) ==
    /\ IsDict(t) /\ (t.seq = Absent \/ HasSequence(t))
    /\ HasSequence(t) => \A k \in 1..Len(t.seq.elems) : IsDict(t.seq.elems[k])
    /\ FullyJoined(t)
    /\ \A k \in 1..Len(OrderedTerms(t)) :
          OrderedTerms(t)[k].kind = "group" => WellJoined(OrderedTerms(t)[k].val)

-----------------------------------------------------------------------------
(* Properties *)

\* C1: a backtest run never begins for a strategy the validator rejects:
\* POST /backtest answers with the validator's message, no strategy class
\* is built and no candle is processed.
C1_RejectedStrategyNeverRuns ==
    LET v == validate_strategy(strategy)
    IN  (/\ response.endpoint = "backtest" /\ candles # <<>>
         /\ StrategyGiven(strategy) /\ ~v.ok /\ ~v.exc)
        => /\ response.message = v.msg
           /\ ~built
           /\ processed = 0

\* C2: a tree with "_sequence" and no operator keys evaluates to the value
\* of the first rule of the sequence, whatever the insertion order of its keys.
C2_SequenceOrderWithoutOperators ==
    LET t == EvalTree
        first == OrderedTerms(t)[1]
    IN  (/\ Evaluated /\ HasSequence(t) /\ ~HasOperatorKey(t)
         /\ OrderedTerms(t) # <<>> /\ first.kind = "rule")
        => lastEval.res = EOk(_evaluate_rule(data_df, first.val, lastEval.i))

\* C3: a group entry is evaluated and combined with the outer operators,
\* with and without "_sequence": the tree {group0, operator0, rule1}, group0
\* being two rules joined by an operator, evaluates to (group0's value)
\* operator0 (rule1's value).
C3_GroupsAreTerms ==
    LET t == EvalTree
    IN  (/\ Evaluated /\ Len(t.items) = 3
         /\ t.items[1].kind = "group" /\ t.items[2].kind = "operator"
         /\ t.items[3].kind = "rule" /\ WellJoined(t)
         /\ Len(OrderedTerms(t.items[1].val)) = 2)
        => lastEval.res =
             EOk(ApplyOp(t.items[2].val,
                         SpecValue(data_df, t.items[1].val, lastEval.i),
                         _evaluate_rule(data_df, t.items[3].val, lastEval.i)))

\* C4: a tree with n >= 1 terms (rules and groups) and an AND/OR operator
\* between each two consecutive terms evaluates to the strict left fold of
\* its terms' values.
C4_StrictLeftFold ==
    (Evaluated /\ WellJoined(EvalTree))
        => lastEval.res = EOk(SpecValue(data_df, EvalTree, lastEval.i))

NoTermEntries(t) == \A k \in 1..Len(t.items) : ~IsTermEntry(t.items[k])

\* C5: a tree without rule and group entries evaluates to false at every
\* index, with or without "_sequence", whatever operators it has.
C5_EmptyTreeIsFalse ==
    (Evaluated /\ NoTermEntries(EvalTree)) => lastEval.res = EOk(FALSE)

\* an empty tree with "_sequence" and operators was evaluated at the last index
C5_Witness ==
    /\ Evaluated /\ NoTermEntries(EvalTree) /\ HasSequence(EvalTree)
    /\ HasOperatorKey(EvalTree) /\ lastEval.i = NumCandles - 1
    /\ lastEval.res = EOk(FALSE)

\* a rule with one of the enumerated defects: no indicator name, no
\* condition, no value, no symbol, or a symbol outside the six
MalformedRule(r) ==
    /\ IsDict(r)
    /\ \/ r.indicator = Absent
       \/ IsDict(r.indicator) /\ r.indicator.name = Absent
       \/ r.condition = Absent
       \/ IsDict(r.condition) /\ r.condition.value = Absent
       \/ IsDict(r.condition) /\ r.condition.symbol = Absent
       \/ IsDict(r.condition) /\ r.condition.symbol # Absent
            /\ ~(r.condition.symbol.tag = "str" /\ r.condition.symbol.s \in ComparisonSymbols)

\* a sequence item that names a rule, group or operator key the tree lacks
DanglingItem(t, it) ==
    /\ IsDict(it) /\ it.type \in {Str("rule"), Str("group"), Str("operator")}
    /\ it.index # Absent /\ ~HasKey(t, it.type.s, it.index.n)

RECURSIVE TreeMalformed(_)
\* the tree holds one of the enumerated defects at some depth
TreeMalformed(t) ==
    /\ IsDict(t)
    /\ \/ \E k \in 1..Len(t.items) :
             LET e == t.items[k]
             IN  \/ e.kind = "rule" /\ MalformedRule(e.val)
                 \/ e.kind = "operator" /\ ~IsAndOr(e.val)
                 \/ e.kind = "group" /\ TreeMalformed(e.val)
       \/ HasSequence(t) /\ \E k \in 1..Len(t.seq.elems) : DanglingItem(t, t.seq.elems[k])

Validated == response.endpoint = "validate" /\ StrategyGiven(strategy)

\* C6: validate_strategy returns (False, _) for every strategy that holds
\* an enumerated defect at any depth of buyRules or sellRules, and for
\* every strategy whose buyRules and sellRules are both absent or empty.
C6_EveryDefectRejected ==
    (/\ Validated /\ response.status = 200
     /\ \/ strategy.buyRules # Absent /\ TreeMalformed(strategy.buyRules)
        \/ strategy.sellRules # Absent /\ TreeMalformed(strategy.sellRules)
        \/ ~Truthy(strategy.buyRules) /\ ~Truthy(strategy.sellRules))
    => ~response.valid

\* the tree is a mapping without "_sequence" one of whose rules has the
\* empty string as its indicator name
HasEmptyNameRule(t) ==
    /\ IsDict(t) /\ t.seq = Absent
    /\ \E k \in 1..Len(t.items) :
          /\ t.items[k].kind = "rule" /\ IsDict(t.items[k].val)
          /\ t.items[k].val.indicator # Absent /\ IsDict(t.items[k].val.indicator)
          /\ t.items[k].val.indicator.name = Str(sEmpty)

\* C7: a rule whose indicator name is the empty string is rejected.
C7_EmptyNameRejected ==
    (Validated /\ response.status = 200 /\ HasEmptyNameRule(strategy.buyRules))
        => ~response.valid

\* C8: the validator never raises: every validation request is answered
\* with a (valid, message) pair, never with the handler's error response.
C8_ValidatorNeverRaises ==
    Validated => response.status = 200

NotFound(kind, n) ==
    << IF kind = "rule" THEN "Referenced rule "
       ELSE IF kind = "group" THEN "Referenced group " ELSE "Referenced operator ",
       kind, IdxStr(n), " not found" >>

RECURSIVE Checks(_)
RECURSIVE ChecksOfItems(_, _)
RECURSIVE ChecksOfEntries(_, _)
\* the outcome of every check the traversal of a tree comes to, in traversal
\* order and without stopping at a failure
ChecksOfItems(t, k) ==
    IF k > Len(t.seq.elems) THEN <<>>
    ELSE
      LET it == t.seq.elems[k]
          here ==
            IF InRaises(it) THEN <<VRaise>>
            ELSE IF ~KeyIn(it, "type") \/ ~KeyIn(it, "index")
              THEN <<VFail(<<"Sequence items must have type and index">>)>>
            ELSE IF it.type \notin {Str("rule"), Str("group"), Str("operator")} THEN <<>>
            ELSE IF ~HasKey(t, it.type.s, it.index.n)
              THEN <<VFail(NotFound(it.type.s, it.index.n))>>
            ELSE IF it.type = Str("rule")
              THEN <<validate_rule(Lookup(t, "rule", it.index.n))>>
            ELSE IF it.type = Str("group") THEN Checks(Lookup(t, "group", it.index.n))
            ELSE IF IsAndOr(Lookup(t, "operator", it.index.n)) THEN <<VOk(<<>>)>>
            ELSE <<VFail(<<"Operator ", "operator", IdxStr(it.index.n), " must be AND or OR">>)>>
      IN  here \o ChecksOfItems(t, k + 1)
ChecksOfEntries(t, k) ==
    IF k > Len(t.items) THEN <<>>
    ELSE
      LET e == t.items[k]
          here ==
            IF e.kind = "rule" THEN <<validate_rule(e.val)>>
            ELSE IF e.kind = "group" THEN Checks(e.val)
            ELSE IF IsAndOr(e.val) THEN <<VOk(<<>>)>>
            ELSE <<VFail(<<"Operator ", "operator", IdxStr(e.idx), " must be AND or OR">>)>>
      IN  here \o ChecksOfEntries(t, k + 1)
Checks(t) ==
    IF ~IsDict(t) THEN <<VRaise>>
    ELSE IF t.seq = Absent THEN ChecksOfEntries(t, 1)
    ELSE IF t.seq.tag # "list" THEN <<VRaise>>
    ELSE ChecksOfItems(t, 1)

PrefixAll(prefix, q) == [k \in 1..Len(q) |-> IF q[k].ok THEN q[k] ELSE Prefixed(prefix, q[k])]

\* the checks of a strategy: buyRules before sellRules
StrategyChecks(s) ==
    IF ~Truthy(s.buyRules) /\ ~Truthy(s.sellRules)
      THEN <<VFail(<<"Strategy must have at least buyRules or sellRules">>)>>
    ELSE (IF s.buyRules = Absent THEN <<>>
          ELSE PrefixAll("Invalid buy rules: ", Checks(s.buyRules)))
         \o (IF s.sellRules = Absent THEN <<>>
             ELSE PrefixAll("Invalid sell rules: ", Checks(s.sellRules)))

FailedChecks(q) == {k \in 1..Len(q) : ~q[k].ok}
FirstFailed(q) == CHOOSE k \in FailedChecks(q) : \A j \in FailedChecks(q) : k <= j

\* C9: validation is fail-fast: the answer is the message of the first
\* failing check in traversal order (buyRules before sellRules, "_sequence"
\* order if present, else declaration order, depth-first into groups),
\* whatever the checks after it would give; a check that raises ends the
\* validation in the same order.
C9_FirstFailureOnly ==
    Validated =>
      LET q == StrategyChecks(strategy)
      IN  IF FailedChecks(q) = {} THEN response.status = 200 /\ response.valid
          ELSE IF q[FirstFailed(q)].exc THEN response.status = 500
          ELSE /\ response.status = 200
               /\ ~response.valid
               /\ response.message = q[FirstFailed(q)].msg

\* a strategy with failing checks in both trees was validated: the answer
\* is the buy tree's first message, and later checks fail otherwise or raise
C9_Witness ==
    /\ Validated /\ response.status = 200 /\ ~response.valid
    /\ LET q == StrategyChecks(strategy)
       IN  /\ Cardinality(FailedChecks(q)) >= 2
           /\ response.message = q[FirstFailed(q)].msg
           /\ response.message[1] = "Invalid buy rules: "
           /\ \E k \in FailedChecks(q) :
                  q[k].msg # response.message /\ q[k].msg[1] = "Invalid sell rules: "

\* the evaluation of the rule fails: a condition value that is no number,
\* a missing field, or an indicator the resolver cannot resolve
EvaluationFails(frame, r) ==
    \/ RuleRaises(r)
    \/ r.indicator = Absent \/ r.indicator.name = Absent
    \/ r.condition = Absent \/ r.condition.value = Absent \/ r.condition.symbol = Absent
    \/ /\ r.indicator.name # Str(sPrice)
       /\ MatchingColumns(frame, NamePattern(r.indicator.name)) = <<>>

\* C10: a rule whose evaluation fails counts as false and the other terms
\* are still evaluated and combined: a tree of rules evaluates, without
\* raising, to the combination of its rules' values with false in the place
\* of every failing rule.
C10_FailingRuleIsFalse ==
    LET t == EvalTree
        rs == SelectSeq(t.items, LAMBDA e : e.kind = "rule")
        vals == [k \in 1..Len(rs) |->
                    IF EvaluationFails(data_df, rs[k].val) THEN FALSE
                    ELSE _evaluate_rule(data_df, rs[k].val, lastEval.i)]
    IN  (/\ Evaluated /\ t.seq = Absent /\ rs # <<>>
         /\ \A k \in 1..Len(t.items) : t.items[k].kind # "group")
        => lastEval.res = EOk(CombineSimpleFrom(OperatorValues(t), vals, 1, vals[1]))

\* the name is a non-empty string that is neither in the catalog nor an
\* alias of a catalog entry
Unresolvable(name) ==
    name.tag = "str" /\ name.s # <<>> /\ get_indicator(name.s) = NoIndicator

\* the rules among the entries of a tree that name their indicator by a string
NamedRules(t) ==
    SelectSeq(t.items, LAMBDA e :
        /\ e.kind = "rule" /\ IsDict(e.val)
        /\ e.val.indicator # Absent /\ IsDict(e.val.indicator)
        /\ e.val.indicator.name.tag = "str")

\* C11: the resolver returns the close at the index for "Price" and 0.0
\* for every other name that is neither in the catalog nor an alias, at
\* every index.
C11_UnresolvableIsZeroOrClose ==
    Evaluated =>
      \A k \in 1..Len(NamedRules(EvalTree)) :
         LET name == NamedRules(EvalTree)[k].val.indicator.name
         IN  Unresolvable(name) =>
               _get_indicator_value(data_df, name, lastEval.i) =
                  IF name = Str(sPrice) THEN Close(data_df)[lastEval.i + 1] ELSE 0

\* the rules among the entries of a tree that name a catalog indicator,
\* by its name or by an alias, with a window the frame can fill
CatalogRules(t) ==
    SelectSeq(NamedRules(t), LAMBDA e :
        /\ get_indicator(e.val.indicator.name.s) # NoIndicator
        /\ LengthOf(e.val.indicator.indicatorSettings) <= Len(Close(data_df)))

\* the value at 0-based index i of the series of the rule's indicator
\* computed with the rule's own settings
OwnSeriesValue(rule, i) ==
    MovingAverage(Close(data_df), LengthOf(rule.indicator.indicatorSettings))[i + 1]

\* C12: when two rules of a tree name the same indicator with different
\* settings, each rule's value at the index is the value of the series
\* computed for its own settings.
C12_SeriesKeyedByParams ==
    Evaluated =>
      LET rs == CatalogRules(EvalTree)
      IN  \A j, k \in 1..Len(rs) :
            (/\ rs[j].val.indicator.name = rs[k].val.indicator.name
             /\ rs[j].val.indicator.indicatorSettings
                   # rs[k].val.indicator.indicatorSettings)
            => _get_indicator_value(data_df, rs[j].val.indicator.name, lastEval.i)
                  = OwnSeriesValue(rs[j].val, lastEval.i)

\* the catalog rules of both trees of the strategy
AllCatalogRules ==
    (IF IsDict(GetRules(strategy.buyRules))
       THEN CatalogRules(GetRules(strategy.buyRules)) ELSE <<>>)
    \o (IF IsDict(GetRules(strategy.sellRules))
          THEN CatalogRules(GetRules(strategy.sellRules)) ELSE <<>>)

\* the (canonical name, settings) combination a catalog rule refers to
Combination(rule) ==
    << get_indicator(rule.indicator.name.s).name, rule.indicator.indicatorSettings >>

\* C13: a (name, settings) combination that several rules of the strategy
\* refer to is computed exactly once in the run.
C13_ComputedOncePerCombination ==
    pc = "next" =>
      LET rs == AllCatalogRules
      IN  \A j, k \in 1..Len(rs) :
            (j # k /\ Combination(rs[j].val) = Combination(rs[k].val))
            => LET col == SeriesName(get_indicator(rs[j].val.indicator.name.s),
                                     LengthOf(rs[j].val.indicator.indicatorSettings))
               IN  HasColumn(data_df, col) /\ ColumnNamed(data_df, col).assigned = 1

\* C14: a rule that names a catalog indicator by its display-name alias
\* reads, at the index, the value of the canonical indicator's series.
C14_AliasReadsCanonicalSeries ==
    Evaluated =>
      LET rs == CatalogRules(EvalTree)
      IN  \A k \in 1..Len(rs) :
            rs[k].val.indicator.name.s \notin DOMAIN INDICATORS
            => _get_indicator_value(data_df, rs[k].val.indicator.name, lastEval.i)
                  = OwnSeriesValue(rs[k].val, lastEval.i)

-----------------------------------------------------------------------------
(* The driver: orders, stop and target levels, sizing, repeated evaluation *)

\* a bar has been handed to next()
CandleStep == pc = "next" /\ bar' = bar + 1

TreeTrue(rules, i) ==
    LET ev == _evaluate_rules(data_df, rules, i)
    IN  ~ev.exc /\ ev.val

\* C15: at each index an open-long instruction is issued if and only if no
\* position is open, buyRules is non-empty and the buy tree is true there.
C15_OpenLongIffFlatAndBuyTrue ==
    [][CandleStep =>
         ((pending' = "buy") <=>
            /\ position' = "flat"
            /\ Truthy(GetRules(strategy.buyRules))
            /\ TreeTrue(GetRules(strategy.buyRules), bar'))]_vars

\* close(i) * (1 - pct / 100) and close(i) * (1 + pct / 100), in hundredths
StopAt(df, i, pct)   == Close(df)[i + 1] * (100 - pct)
TargetAt(df, i, pct) == Close(df)[i + 1] * (100 + pct)

\* C16: a position opened on the signal of index i has the stop
\* close(i) * (1 - stop_loss_pct / 100) when stop_loss_pct > 0 and the target
\* close(i) * (1 + take_profit_pct / 100) when take_profit_pct > 0, and the
\* broker holds these levels for the position.
C16_BrokerHoldsStopAndTarget ==
    trade.open =>
      /\ stop_loss_pct > 0 =>
           trade.sl = Level(StopAt(data_df, trade.signal_bar, stop_loss_pct))
      /\ take_profit_pct > 0 =>
           trade.tp = Level(TargetAt(data_df, trade.signal_bar, take_profit_pct))

RECURSIVE HighestHigh(_, _, _)
\* max(High over [from, to]), 0-based indexes
HighestHigh(df, from, to) ==
    IF from >= to THEN High(df)[to + 1]
    ELSE LET rest == HighestHigh(df, from, to - 1)
         IN  IF High(df)[to + 1] > rest THEN High(df)[to + 1] ELSE rest

\* C17: while a position is open and trailing_stop_pct > 0, each step leaves
\* the stop at max(current stop, max(High over [entry, i]) * (1 -
\* trailing_stop_pct / 100)), so the stop never falls.
C17_TrailingStopRatchets ==
    [][(CandleStep /\ position' = "long" /\ trailing_stop_pct > 0) =>
         LET candidate == HighestHigh(data_df, trade'.entry_bar, bar')
                            * (100 - trailing_stop_pct)
         IN  /\ stop_loss'.set
             /\ stop_loss.set => stop_loss'.level >= stop_loss.level
             /\ stop_loss'.level =
                  IF stop_loss.set /\ stop_loss.level > candidate
                    THEN stop_loss.level ELSE candidate]_vars

\* C18: at each index a close instruction is issued if and only if a long
\* position is open, sellRules is non-empty and the sell tree is true there.
C18_CloseIffLongAndSellTrue ==
    [][CandleStep =>
         ((pending' = "close") <=>
            /\ position' = "long"
            /\ Truthy(GetRules(strategy.sellRules))
            /\ TreeTrue(GetRules(strategy.sellRules), bar'))]_vars

\* two quotients are the same number
FracEq(a, b) == a.num * b.den = b.num * a.den

\* the reference sizing: the amount put at stake over what one unit stakes
ReferenceSize(equity, price, p) ==
    LET fixed == Frac(equity, price * 10)
    IN  CASE p.position_sizing = "fixed" -> fixed
          [] p.position_sizing = "percentage" ->
               Frac(equity * p.risk_percentage, price * 100)
          [] p.position_sizing = "risk_based" /\ p.stop_loss # 0 ->
               Frac(equity * p.risk_percentage, price * p.stop_loss)
          [] OTHER -> fixed

\* equity 10000, price 100, stop 2 percent, risk 2 percent, risk_based
Scenario5 ==
    /\ sized.equity = 10000
    /\ sized.price = 100
    /\ strategy_params = Params("risk_based", 2, 2, 0, 0)

\* C19: _calculate_position_size equals the reference for every policy,
\* falls back to the fixed formula for risk_based without a stop and for
\* an unknown policy, and gives 100 units in the scenario.
C19_SizeEqualsReference ==
    sized.size # NoSize =>
      /\ FracEq(sized.size, ReferenceSize(sized.equity, sized.price, strategy_params))
      /\ Scenario5 => FracEq(sized.size, Frac(100, 1))

C19_Witness ==
    /\ pc = "done"
    /\ Scenario5
    /\ sized.size # NoSize
    /\ sized.size.num = 100 * sized.size.den

-----------------------------------------------------------------------------
(* Failure containment, immutability, operator pairing, inspection *)

\* C21: a rule whose indicator cannot be resolved (no catalog entry, no
\* alias, no column of the frame) evaluates to false at every candle: the
\* failure is contained and degrades the rule.
C21_UnresolvedRuleIsFalse ==
    Evaluated =>
      \A k \in 1..Len(NamedRules(EvalTree)) :
         LET rule == NamedRules(EvalTree)[k].val
         IN  (/\ Unresolvable(rule.indicator.name)
              /\ rule.indicator.name # Str(sPrice)
              /\ MatchingColumns(data_df, rule.indicator.name.s) = <<>>)
               => _evaluate_rule(data_df, rule, lastEval.i) = FALSE

\* a candle of the list lacks a required field
LacksField(cs) ==
    \E k \in 1..Len(cs) : \E f \in 1..Len(CandleFields) : CandleFields[f] \notin DOMAIN cs[k]

\* C22: run_backtest raises RuntimeError and returns nothing when the candle
\* list is empty or a candle lacks a required field; in every case it
\* returns a complete result or raises RuntimeError, nothing else.
C22_RuntimeErrorOrCompleteResult ==
    (pc = "done" /\ outcome # NoOutcome) =>
      /\ (candles = <<>> \/ LacksField(candles)) => outcome.exc
      /\ outcome.exc => outcome.type = "RuntimeError" /\ outcome.result = <<>>
      /\ ~outcome.exc =>
           outcome.result = <<"trades", "equity_curve", "equity_times", "metrics">>

C22_Witness ==
    /\ pc = "done"
    /\ Len(candles) = 2
    /\ ~LacksField(<<candles[1]>>)
    /\ "close" \notin DOMAIN candles[2]
    /\ "volume" \in DOMAIN candles[2]
    /\ outcome = Raised("RuntimeError", <<"Failed to run backtest: ", "'", "close", "'">>)

\* C23: whatever the interleaving of two runs, each run resolves the
\* indicator it would resolve when executed alone, with the complete catalog.
C23_RunsResolveAsAlone ==
    \A t \in DOMAIN runs :
       runs[t].pc = "done" => runs[t].resolved = get_indicator(runs[t].name)

\* C24: after init no per-candle step changes the risk parameters
\* (stop_loss_pct, take_profit_pct, trailing_stop_pct, position_sizing,
\* risk_percentage) or the buy and sell rule trees.
C24_RiskParametersImmutable ==
    [][pc = "next" =>
         /\ strategy_params' = strategy_params
         /\ strategy' = strategy]_vars

C24_Witness ==
    /\ pc = "next"
    /\ bar >= 2
    /\ position = "long"
    /\ stop_loss_pct > 0
    /\ stop_loss.set
    /\ sized.size # NoSize

\* the tree is evaluated by _evaluate_complex_rules
ComplexPath(t) == IsDict(t) /\ HasSequence(t) /\ HasOperatorKey(t)

\* the terms whose values an evaluation collects, in the order it collects
\* them: under "_sequence" with operators the rule and group items of the
\* sequence whose key exists, else the rule entries in declaration order
CollectedTerms(t) ==
    IF ComplexPath(t) THEN OrderedTerms(t)
    ELSE SelectSeq(t.items, LAMBDA e : e.kind = "rule")

\* the value of the k-th collected term at index i
TermValue(t, k, i) ==
    LET term == CollectedTerms(t)[k]
    IN  IF term.kind = "rule" THEN _evaluate_rule(data_df, term.val, i)
        ELSE _evaluate_rules(data_df, term.val, i).val

RECURSIVE Zip(_, _, _)
\* the first n terms, the j-th of them (j >= 1, 0-based) joined by the
\* value under the key operator<j-1>
Zip(t, i, n) ==
    IF n = 1 THEN TermValue(t, 1, i)
    ELSE LET acc == Zip(t, i, n - 1)
             v   == TermValue(t, n, i)
         IN  IF ~HasKey(t, "operator", n - 2) THEN acc
             ELSE CASE Lookup(t, "operator", n - 2) = AND -> acc /\ v
                    [] Lookup(t, "operator", n - 2) = OR  -> acc \/ v
                    [] OTHER -> acc

\* C25: under "_sequence" the j-th term collected (j >= 1) is joined to
\* the accumulator by the key operator<j-1>, wherever the operator items
\* stand in the sequence: [rule1, operator0, rule0] joins rule1 and rule0 by
\* operator0, and an item whose key is absent moves every later term to
\* the operator before.
C25_OperatorZip ==
    LET t == EvalTree
    IN  (Evaluated /\ ComplexPath(t) /\ ~lastEval.res.exc /\ CollectedTerms(t) # <<>>)
           => lastEval.res.val = Zip(t, lastEval.i, Len(CollectedTerms(t)))

\* [rule1, operator0, rule0] with rule1 true, rule0 false and operator0 AND
C25_Witness ==
    LET t == EvalTree
    IN  /\ Evaluated /\ ComplexPath(t)
        /\ t.seq = List(<<SeqItem(Str("rule"), Num(1)), SeqItem(Str("operator"), Num(0)),
                          SeqItem(Str("rule"), Num(0))>>)
        /\ Lookup(t, "rule", 1) = RuleTrue
        /\ Lookup(t, "rule", 0) = RuleFalse
        /\ Lookup(t, "operator", 0) = AND
        /\ lastEval.res = EOk(FALSE)

\* an item naming an absent rule stands between rule0 and rule1, and rule2
\* is joined by operator1
C25_WitnessGap ==
    LET t == EvalTree
    IN  /\ Evaluated /\ ComplexPath(t)
        /\ Len(t.seq.elems) > Len(t.items)
        /\ Len(CollectedTerms(t)) = 3
        /\ HasKey(t, "operator", 1)
        /\ Lookup(t, "operator", 0) # Lookup(t, "operator", 1)

\* term n (n >= 2, 1-based) has an operator paired with it whose value is
\* AND or OR
Usable(t, n) ==
    IF ComplexPath(t)
      THEN HasKey(t, "operator", n - 2) /\ IsAndOr(Lookup(t, "operator", n - 2))
    ELSE n - 1 <= Len(OperatorValues(t)) /\ IsAndOr(OperatorValues(t)[n - 1])

\* the operator paired with a usable term
Paired(t, n) ==
    IF ComplexPath(t) THEN Lookup(t, "operator", n - 2) ELSE OperatorValues(t)[n - 1]

\* the collected terms that count: the first, and every one with a usable
\* operator
Kept(t) == { n \in 1..Len(CollectedTerms(t)) : n = 1 \/ Usable(t, n) }

RECURSIVE FoldKept(_, _, _)
\* the left fold of the kept terms among the first n
FoldKept(t, i, n) ==
    IF n = 1 THEN TermValue(t, 1, i)
    ELSE IF n \notin Kept(t) THEN FoldKept(t, i, n - 1)
    ELSE IF Paired(t, n) = AND THEN FoldKept(t, i, n - 1) /\ TermValue(t, n, i)
    ELSE FoldKept(t, i, n - 1) \/ TermValue(t, n, i)

\* C26: in both evaluation paths a term whose paired operator is missing or
\* is neither "AND" nor "OR" is dropped: the result is the fold of the
\* other terms, and with no operators at all it is the first term's value.
C26_TermWithoutOperatorDropped ==
    LET t == EvalTree
    IN  (Evaluated /\ IsDict(t) /\ ~lastEval.res.exc /\ CollectedTerms(t) # <<>>)
           => /\ lastEval.res.val = FoldKept(t, lastEval.i, Len(CollectedTerms(t)))
              /\ ~HasOperatorKey(t) => lastEval.res.val = TermValue(t, 1, lastEval.i)

\* two terms of different value, the second with an operator that is
\* neither AND nor OR
C26_Witness ==
    LET t == EvalTree
    IN  /\ Evaluated /\ IsDict(t) /\ Len(CollectedTerms(t)) = 2
        /\ HasOperatorKey(t) /\ ~Usable(t, 2)
        /\ TermValue(t, 1, lastEval.i) # TermValue(t, 2, lastEval.i)
        /\ lastEval.res = EOk(TermValue(t, 1, lastEval.i))

\* the keys of a tree that validate_rules looks at: under "_sequence" the
\* keys the sequence names, else every key
Inspected(t) ==
    IF HasSequence(t)
      THEN { <<it.type.s, it.index.n>> :
               it \in { x \in { t.seq.elems[k] : k \in 1..Len(t.seq.elems) } :
                          /\ IsDict(x) /\ x.type \in {Str("rule"), Str("group"), Str("operator")}
                          /\ x.index # Absent /\ HasKey(t, x.type.s, x.index.n) } }
    ELSE { <<t.items[k].kind, t.items[k].idx>> : k \in 1..Len(t.items) }

\* the keys of a tree whose values an evaluation uses: the terms it
\* collects and the operators it applies to them
Used(t) ==
    LET terms == CollectedTerms(t)
        ops   == SelectSeq(t.items, LAMBDA e : e.kind = "operator")
    IN  { <<terms[k].kind, terms[k].idx>> : k \in 1..Len(terms) }
        \cup { <<"operator", IF ComplexPath(t) THEN n - 2 ELSE ops[n - 1].idx>> :
                 n \in { m \in 2..Len(terms) : Usable(t, m) } }

\* C27: in a strategy that validate_strategy accepts, every rule and group
\* an evaluation collects and every operator it applies is a key the
\* validator looked at.
C27_EvaluatedWasValidated ==
    (Evaluated /\ IsDict(EvalTree) /\ validate_strategy(strategy).ok)
        => Used(EvalTree) \subseteq Inspected(EvalTree)

C29_OneTreePerStep ==
    [][CandleStep =>
         /\ (lastEval'.which # "none" /\ lastEval'.i = bar') =>
                lastEval'.which = IF position' = "flat" THEN "buy" ELSE "sell"
         /\ pending' = "buy" =>
                position' = "flat" /\ lastEval' = [which |-> "buy", i |-> bar', res |-> EOk(TRUE)]
         /\ pending' = "close" =>
                position' = "long" /\ lastEval' = [which |-> "sell", i |-> bar', res |-> EOk(TRUE)]]_vars

\* an open is issued at an index at which the sell tree is true as well
C29_Witness ==
    /\ pc = "next" /\ pending = "buy" /\ position = "flat"
    /\ lastEval.which = "buy" /\ lastEval.i = bar
    /\ Truthy(GetRules(strategy.sellRules))
    /\ _evaluate_rules(data_df, GetRules(strategy.sellRules), bar) = EOk(TRUE)

====
